---------------------------- MODULE Spec2Model ----------------------------
(***************************************************************************)
(* Model of the side-server chat plugins.  The first part is the          *)
(* custom-colors plugin                                                    *)
(* (side-server/chat-plugins/customization/custom-colors.ts); each other   *)
(* plugin has one variable, a record of its state, and a specification of  *)
(* its own in which the remaining plugins are not loaded.                  *)
(*                                                                         *)
(* Text is a sequence of one-character strings, so that normalisation,     *)
(* the hex syntax check and the hex formatting are computed character by   *)
(* character.  Real numbers are fixed-point integers: a channel or C, X, m *)
(* is scaled by 10^8 and a lightness (in percent) by 10^7; every           *)
(* intermediate product stays below 2^31.                                  *)
(***************************************************************************)
EXTENDS Integers, Sequences, FiniteSets, TLC

VARIABLES
    customColors,   \* the override table: own properties of the object
    colorCache,     \* the color cache: own properties of the object
    file,           \* contents of impulse/db/custom-colors.json
    loads,          \* loadData calls whose file read has not resumed yet
    last,           \* the last operation: its name, arguments and outcome
    effects,        \* the effects the last operation performed, in order
    phase           \* per key: progress of a lookup / set / remove scenario

vars == <<customColors, colorCache, file, loads, last, effects, phase>>

\* Plugins

VARIABLES
    files,          \* management/files.ts: file system, Config, last reply
    seen,           \* misc/seen-clearall.ts: seenData, file, clock, last reply
    ontime,         \* ontime plugin: data, users' sessions, clock, last reply
    news,           \* news plugin: data, clock, last reply
    digest,         \* custom-colors.ts hashColor: a digest and the seeds taken from it
    sample,         \* custom-colors.ts hashColor: three seeds and the color computed from them
    tables,         \* utils.ts, custom-icons.ts, custom-symbol.ts: each plugin's data, last reply
    rooms,          \* misc/seen-clearall.ts clearall: the rooms, pending rejoin timers, last reply
    css             \* config/custom.css and the tables its three writers render, last update

\* the value of a plugin's variable in a specification that does not load it
Unloaded == <<"unloaded">>

\* the variables of the plugins other than custom-colors
plugins ==
    <<files, seen, ontime, news, digest, sample, tables, rooms, css>>

\* the custom-colors plugin is not loaded
ColorsUnloaded ==
    /\ customColors = Unloaded
    /\ colorCache = Unloaded
    /\ file = Unloaded
    /\ loads = Unloaded
    /\ last = Unloaded
    /\ effects = Unloaded
    /\ phase = Unloaded

\* only the custom-colors plugin is loaded
ColorsAlone ==
    /\ files = Unloaded
    /\ seen = Unloaded
    /\ ontime = Unloaded
    /\ news = Unloaded
    /\ digest = Unloaded
    /\ sample = Unloaded
    /\ tables = Unloaded
    /\ rooms = Unloaded
    /\ css = Unloaded

\* the variables of the plugins other than files
exceptFiles ==
    <<vars, seen, ontime, news, digest, sample, tables, rooms, css>>

\* only files is loaded
FilesAlone ==
    /\ ColorsUnloaded
    /\ seen = Unloaded
    /\ ontime = Unloaded
    /\ news = Unloaded
    /\ digest = Unloaded
    /\ sample = Unloaded
    /\ tables = Unloaded
    /\ rooms = Unloaded
    /\ css = Unloaded

\* the variables of the plugins other than seen
exceptSeen ==
    <<vars, files, ontime, news, digest, sample, tables, rooms, css>>

\* only seen is loaded
SeenAlone ==
    /\ ColorsUnloaded
    /\ files = Unloaded
    /\ ontime = Unloaded
    /\ news = Unloaded
    /\ digest = Unloaded
    /\ sample = Unloaded
    /\ tables = Unloaded
    /\ rooms = Unloaded
    /\ css = Unloaded

\* the variables of the plugins other than ontime
exceptOntime ==
    <<vars, files, seen, news, digest, sample, tables, rooms, css>>

\* only ontime is loaded
OntimeAlone ==
    /\ ColorsUnloaded
    /\ files = Unloaded
    /\ seen = Unloaded
    /\ news = Unloaded
    /\ digest = Unloaded
    /\ sample = Unloaded
    /\ tables = Unloaded
    /\ rooms = Unloaded
    /\ css = Unloaded

\* the variables of the plugins other than news
exceptNews ==
    <<vars, files, seen, ontime, digest, sample, tables, rooms, css>>

\* only news is loaded
NewsAlone ==
    /\ ColorsUnloaded
    /\ files = Unloaded
    /\ seen = Unloaded
    /\ ontime = Unloaded
    /\ digest = Unloaded
    /\ sample = Unloaded
    /\ tables = Unloaded
    /\ rooms = Unloaded
    /\ css = Unloaded

\* the variables of the plugins other than digest
exceptDigest ==
    <<vars, files, seen, ontime, news, sample, tables, rooms, css>>

\* only digest is loaded
DigestAlone ==
    /\ ColorsUnloaded
    /\ files = Unloaded
    /\ seen = Unloaded
    /\ ontime = Unloaded
    /\ news = Unloaded
    /\ sample = Unloaded
    /\ tables = Unloaded
    /\ rooms = Unloaded
    /\ css = Unloaded

\* the variables of the plugins other than sample
exceptSample ==
    <<vars, files, seen, ontime, news, digest, tables, rooms, css>>

\* only sample is loaded
SampleAlone ==
    /\ ColorsUnloaded
    /\ files = Unloaded
    /\ seen = Unloaded
    /\ ontime = Unloaded
    /\ news = Unloaded
    /\ digest = Unloaded
    /\ tables = Unloaded
    /\ rooms = Unloaded
    /\ css = Unloaded

\* the variables of the plugins other than tables
exceptTables ==
    <<vars, files, seen, ontime, news, digest, sample, rooms, css>>

\* only tables is loaded
TablesAlone ==
    /\ ColorsUnloaded
    /\ files = Unloaded
    /\ seen = Unloaded
    /\ ontime = Unloaded
    /\ news = Unloaded
    /\ digest = Unloaded
    /\ sample = Unloaded
    /\ rooms = Unloaded
    /\ css = Unloaded

\* the variables of the plugins other than rooms
exceptRooms ==
    <<vars, files, seen, ontime, news, digest, sample, tables, css>>

\* only rooms is loaded
RoomsAlone ==
    /\ ColorsUnloaded
    /\ files = Unloaded
    /\ seen = Unloaded
    /\ ontime = Unloaded
    /\ news = Unloaded
    /\ digest = Unloaded
    /\ sample = Unloaded
    /\ tables = Unloaded
    /\ css = Unloaded

\* the variables of the plugins other than css
exceptCss ==
    <<vars, files, seen, ontime, news, digest, sample, tables, rooms>>

\* only css is loaded
CssAlone ==
    /\ ColorsUnloaded
    /\ files = Unloaded
    /\ seen = Unloaded
    /\ ontime = Unloaded
    /\ news = Unloaded
    /\ digest = Unloaded
    /\ sample = Unloaded
    /\ tables = Unloaded
    /\ rooms = Unloaded

---------------------------------------------------------------------------
\* Characters and text

LowerLetters ==
    <<"a", "b", "c", "d", "e", "f", "g", "h", "i", "j", "k", "l", "m",
      "n", "o", "p", "q", "r", "s", "t", "u", "v", "w", "x", "y", "z">>

UpperLetters ==
    <<"A", "B", "C", "D", "E", "F", "G", "H", "I", "J", "K", "L", "M",
      "N", "O", "P", "Q", "R", "S", "T", "U", "V", "W", "X", "Y", "Z">>

Digits == <<"0", "1", "2", "3", "4", "5", "6", "7", "8", "9">>

HexDigits == Digits \o <<"a", "b", "c", "d", "e", "f">>

Range(s) == {s[i] : i \in 1..Len(s)}

UpperSet == Range(UpperLetters)

IdCharSet == Range(LowerLetters) \cup Range(Digits)

HexCharSet == Range(HexDigits) \cup {"A", "B", "C", "D", "E", "F"}

IndexOf(s, c) == CHOOSE i \in 1..Len(s) : s[i] = c

\* String.prototype.toLowerCase on one character
toLowerCase(c) ==
    IF c \in UpperSet THEN LowerLetters[IndexOf(UpperLetters, c)]
    ELSE c

\* the character class [a-z0-9]
IsIdChar(c) == c \in IdCharSet

\* toID of the host: lower-case the text, drop every character outside
\* [a-z0-9]
toID(text) ==
    SelectSeq([i \in 1..Len(text) |-> toLowerCase(text[i])], IsIdChar)

\* String.prototype.trim (blanks only)
RECURSIVE TrimLeft(_)
TrimLeft(s) ==
    IF s # <<>> /\ Head(s) = " " THEN TrimLeft(Tail(s)) ELSE s

RECURSIVE TrimRight(_)
TrimRight(s) ==
    IF s # <<>> /\ s[Len(s)] = " "
    THEN TrimRight(SubSeq(s, 1, Len(s) - 1)) ELSE s

trim(s) == TrimRight(TrimLeft(s))

\* the character class [0-9A-Fa-f]
IsHexChar(c) == c \in HexCharSet

\* validateHexColor with the pattern's end anchor forgotten
validateHexColor_NoEndAnchor(color) ==
    /\ Len(color) >= 4
    /\ color[1] = "#"
    /\ \A i \in 2..4 : IsHexChar(color[i])

\* /^#([0-9A-Fa-f]{3}|[0-9A-Fa-f]{6})$/.test(color)
validateHexColor(color) ==
    /\ Len(color) \in {4, 7}
    /\ color[1] = "#"
    /\ \A i \in 2..Len(color) : IsHexChar(color[i])

---------------------------------------------------------------------------
\* JavaScript objects used as string-keyed tables

\* the value of a missing property
Undefined == <<"undefined">>

\* Object.prototype.constructor, the one inherited property whose name is
\* a possible id
ObjectFunction == <<"function Object() { [native code] }">>

PrototypeKeys == {<<"c", "o", "n", "s", "t", "r", "u", "c", "t", "o", "r">>}

EmptyObject == <<>>

\* obj[key]: an own property, else an inherited one, else undefined
Get(obj, key) ==
    IF key \in DOMAIN obj THEN obj[key]
    ELSE IF key \in PrototypeKeys THEN ObjectFunction
    ELSE Undefined

\* obj[key] = value
Put(obj, key, value) ==
    [k \in DOMAIN obj \cup {key} |-> IF k = key THEN value ELSE obj[k]]

\* delete obj[key]
Delete(obj, key) == [k \in DOMAIN obj \ {key} |-> obj[k]]

\* the truthiness of a property value: undefined and "" are falsy
Truthy(v) == v # Undefined /\ v # <<>>

---------------------------------------------------------------------------
\* Fixed-point arithmetic (TLC integers are 32 bits wide)

Abs(x) == IF x < 0 THEN -x ELSE x

Min(a, b) == IF a < b THEN a ELSE b

\* floor(a * n / d) for a small multiplier n and divisor d
MulDiv(a, n, d) == (a \div d) * n + ((a % d) * n) \div d

\* floor(a * b / 10^8): the product of two numbers scaled by 10^8
FMul(a, b) ==
    LET a1 == a \div 10^4
        a0 == a % 10^4
        b1 == b \div 10^4
        b0 == b % 10^4
    IN  a1 * b1 + ((a1 * b0 + a0 * b1) + (a0 * b0) \div 10^4) \div 10^4

\* Math.round(x * 255) of a channel x scaled by 10^8
RoundByte(x) ==
    LET hi == x \div 10^4
        lo == x % 10^4
    IN  (hi * 255 + (lo * 255) \div 10^4 + 5000) \div 10^4

---------------------------------------------------------------------------
\* The color computation

\* HSLToRGB(H, S, L), L scaled by 10^7, the channels scaled by 10^8
HSLToRGB(H, S, L) ==
    LET C == MulDiv(10^9 - Abs(2 * L - 10^9), S, 1000)
        X == MulDiv(C, 60 - Abs((H % 120) - 60), 60)
        m == L \div 10 - C \div 2
        hCase == H \div 60
        R1 == IF hCase \in {0, 5} THEN C
              ELSE IF hCase \in {1, 4} THEN X ELSE 0
        G1 == IF hCase \in {1, 2} THEN C
              ELSE IF hCase \in {0, 3} THEN X ELSE 0
        B1 == IF hCase \in {3, 4} THEN C
              ELSE IF hCase \in {2, 5} THEN X ELSE 0
    IN  [R |-> R1 + m, G |-> G1 + m, B |-> B1 + m]

\* lum = R*R*R*0.2126 + G*G*G*0.7152 + B*B*B*0.0722, scaled by 10^8
Luminance(rgb) ==
    FMul(21260000, FMul(FMul(rgb.R, rgb.R), rgb.R))
    + FMul(71520000, FMul(FMul(rgb.G, rgb.G), rgb.G))
    + FMul(7220000, FMul(FMul(rgb.B, rgb.B), rgb.B))

\* the rescaling of HLmod = (lum - 0.2) * -150, scaled by 10^7
RescaleHLmod(HLmod) ==
    IF HLmod > 18 * 10^7 THEN ((HLmod - 18 * 10^7) * 5) \div 2
    ELSE IF HLmod < 0 THEN HLmod \div 3
    ELSE HLmod

\* the boost of hues near 180 or 240 degrees, scaled by 10^7
HueBoost(H) ==
    LET Hdist == Min(Abs(180 - H), Abs(240 - H))
    IN  IF Hdist < 15 THEN ((15 - Hdist) * 10^7) \div 3 ELSE 0

\* HLmod = (lum - 0.2) * -150, scaled by 10^7
RawHLmod(H, S, L) == (2 * 10^7 - Luminance(HSLToRGB(H, S, L * 10^7))) * 15

\* L after L += HLmod, scaled by 10^7
CorrectedL(H, S, L) ==
    L * 10^7 + RescaleHLmod(RawHLmod(H, S, L)) + HueBoost(H)

\* parseInt(text, 16) of lower-case hex digits
RECURSIVE ParseHex(_)
ParseHex(text) ==
    IF text = <<>> THEN 0
    ELSE 16 * ParseHex(SubSeq(text, 1, Len(text) - 1))
         + (IndexOf(HexDigits, text[Len(text)]) - 1)

\* Number.prototype.toString(16) of an integer
RECURSIVE NatToString16(_)
NatToString16(n) ==
    IF n < 16 THEN <<HexDigits[n + 1]>>
    ELSE NatToString16(n \div 16) \o <<HexDigits[(n % 16) + 1]>>

ToString16(n) ==
    IF n < 0 THEN <<"-">> \o NatToString16(-n) ELSE NatToString16(n)

\* toHex without the leading zero
toHex_NoPad(x) == ToString16(RoundByte(x))

\* toHex(x) of a channel x scaled by 10^8
toHex(x) ==
    LET hex == ToString16(RoundByte(x))
    IN  IF Len(hex) = 1 THEN <<"0">> \o hex ELSE hex

\* crypto.createHash('md5').update(id).digest('hex') of the ids the model
\* looks up
MD5Hex(id) ==
    CASE id = <<"a", "s", "h">> ->
           <<"2", "8", "5", "2", "f", "6", "9", "7", "a", "9", "f", "8",
             "5", "8", "1", "7", "2", "5", "c", "6", "f", "c", "6", "a",
             "5", "4", "7", "2", "a", "2", "e", "5">>
      [] id = <<"b", "o">> ->
           <<"a", "d", "7", "5", "3", "2", "d", "5", "b", "3", "8", "6",
             "0", "a", "4", "0", "8", "f", "b", "e", "0", "1", "f", "9",
             "4", "5", "5", "d", "c", "a", "3", "6">>
      [] id = <<>> ->
           <<"d", "4", "1", "d", "8", "c", "d", "9", "8", "f", "0", "0",
             "b", "2", "0", "4", "e", "9", "8", "0", "0", "9", "9", "8",
             "e", "c", "f", "8", "4", "2", "7", "e">>
      [] id = <<"c", "o", "n", "s", "t", "r", "u", "c", "t", "o", "r">> ->
           <<"6", "c", "a", "2", "6", "8", "3", "7", "1", "e", "e", "b",
             "5", "d", "9", "3", "e", "e", "f", "e", "b", "6", "8", "f",
             "9", "6", "1", "5", "7", "6", "6", "6">>

\* the saturation seed without its offset of 40
SaturationSeed_NoOffset(hash) == ParseHex(SubSeq(hash, 1, 4)) % 50

\* the seeds taken from the digest
HueSeed(hash) == ParseHex(SubSeq(hash, 5, 8)) % 360

SaturationSeed(hash) == (ParseHex(SubSeq(hash, 1, 4)) % 50) + 40

LightnessSeed(hash) == (ParseHex(SubSeq(hash, 9, 12)) % 20) + 30

\* the color hashColor computes for an id that has neither an override
\* nor a cache entry
HashHex(id) ==
    LET hash == MD5Hex(id)
        H == HueSeed(hash)
        S == SaturationSeed(hash)
        L == LightnessSeed(hash)
        rgb == HSLToRGB(H, S, CorrectedL(H, S, L))
    IN  <<"#">> \o toHex(rgb.R) \o toHex(rgb.G) \o toHex(rgb.B)

---------------------------------------------------------------------------
\* Inputs

MaxLoads == 1    \* loadData calls that may be awaiting their read at once

NameAsh == <<"A", "s", "h">>

NameAshBang == <<"a", "s", "h", "!">>

NameConstructor == <<"c", "o", "n", "s", "t", "r", "u", "c", "t", "o", "r">>

NameLong == [i \in 1..20 |-> "a"]

\* identifiers whose color is looked up
Names == {NameAsh, NameAshBang, <<>>, NameConstructor}

\* the [user] field of /customcolor set, as split off the target
NameFields == {<<" ">> \o NameAshBang, <<>>, NameLong}

\* the [hex] field of /customcolor set, as split off the target
ColorFields ==
    { <<"#", "f", "0", "0">>,
      <<" ", "#", "F", "f", "0", "0", "0", "0">>,
      <<"#", "f", "0", "0", "0">>,
      <<>> }

\* the target of /customcolor delete
DeleteTargets == {NameAsh, <<>>, NameConstructor}

\* the arguments of direct calls of the exported functions
Userids == {toID(NameAsh)}

Colors == {<<"#", "f", "0", "0">>, <<"r", "e", "d">>}

\* the users issuing commands: name, and whether checkCan('roomowner') passes
Users ==
    { [name |-> NameAsh, roomowner |-> TRUE],
      [name |-> NameAshBang, roomowner |-> FALSE] }

\* the users who pass checkCan('roomowner')
Staff == {user \in Users : user.roomowner}

\* the keys lookups form
Ids == {toID(n) : n \in Names}

\* contents of the data file: missing, unparsable, or the JSON of a table
NoFile == [kind |-> "none", data |-> EmptyObject]

CorruptFile == [kind |-> "corrupt", data |-> EmptyObject]

JSON(table) == [kind |-> "json", data |-> table]

InitFiles ==
    { NoFile,
      CorruptFile,
      JSON(EmptyObject),
      JSON(Put(EmptyObject, toID(NameAsh),
               <<"#", "F", "f", "0", "0", "0", "0">>)) }

---------------------------------------------------------------------------
\* The module's functions, on the module state
\* M = [customColors, colorCache, file]

\* loadData, once its read has returned raw: customColors after it
loadData(table, raw) ==
    IF raw.kind = "none" THEN table
    ELSE IF raw.kind = "corrupt" THEN EmptyObject
    ELSE raw.data

\* saveData: the file after FS(DATA_FILE).writeUpdate
saveData(M) == [M EXCEPT !.file = JSON(M.customColors)]

clearColorCache(M) == [M EXCEPT !.colorCache = EmptyObject]

addCustomColor(M, userid, color) ==
    saveData([M EXCEPT !.customColors = Put(@, userid, color),
                       !.colorCache = Put(@, userid, color)])

\* removeCustomColor without its delete colorCache[userid]
removeCustomColor_KeepsCache(M, userid) ==
    saveData([M EXCEPT !.customColors = Delete(@, userid)])

removeCustomColor(M, userid) ==
    saveData([M EXCEPT !.customColors = Delete(@, userid),
                       !.colorCache = Delete(@, userid)])

\* the colors computed from the hash, by id
HashColors == [id \in Ids |-> HashHex(id)]

\* hashColor consulting the cache before the override table
hashColor_CacheFirst(M, name) ==
    LET id == toID(name)
    IN  IF Truthy(Get(M.colorCache, id))
        THEN [value |-> Get(M.colorCache, id), M |-> M]
        ELSE IF Truthy(Get(M.customColors, id))
        THEN [value |-> Get(M.customColors, id), M |-> M]
        ELSE [value |-> HashColors[id],
              M |-> [M EXCEPT !.colorCache = Put(@, id, HashColors[id])]]

\* hashColor storing an override it returns in the cache as well
hashColor_CachesOverride(M, name) ==
    LET id == toID(name)
    IN  IF Truthy(Get(M.customColors, id))
        THEN [value |-> Get(M.customColors, id),
              M |-> [M EXCEPT !.colorCache = Put(@, id, Get(M.customColors, id))]]
        ELSE IF Truthy(Get(M.colorCache, id))
        THEN [value |-> Get(M.colorCache, id), M |-> M]
        ELSE [value |-> HashColors[id],
              M |-> [M EXCEPT !.colorCache = Put(@, id, HashColors[id])]]

\* hashColor(name): the value returned and the module state after the call
hashColor(M, name) ==
    LET id == toID(name)
    IN  IF Truthy(Get(M.customColors, id))
        THEN [value |-> Get(M.customColors, id), M |-> M]
        ELSE IF Truthy(Get(M.colorCache, id))
        THEN [value |-> Get(M.colorCache, id), M |-> M]
        ELSE [value |-> HashColors[id],
              M |-> [M EXCEPT !.colorCache = Put(@, id, HashColors[id])]]

\* nameColor(name, bold, userGroup): its effect is that of hashColor(name)
nameColor(M, name) == hashColor(M, name).M

\* sendColorNotifications(user, targetName, color)
sendColorNotifications(M, user, targetName) ==
    nameColor(nameColor(M, user.name), targetName)

---------------------------------------------------------------------------
\* The state machine

\* the module state of the current state
Module ==
    [customColors |-> customColors, colorCache |-> colorCache, file |-> file]

\* the next state holds module state M
Becomes(M) ==
    /\ customColors' = M.customColors
    /\ colorCache' = M.colorCache
    /\ file' = M.file

\* outcomes of an operation that returns no color
Ok == <<"ok">>

Error == <<"error">>

Help == <<"help">>

Pending == <<"pending">>

\* an operation's record: its arguments and its outcome
Op(op, name, color, out) ==
    [op |-> op, name |-> name, color |-> color, out |-> out]

\* the effects of addCustomColor and removeCustomColor, in order
WriteEffects == <<"mutate", "cache", "persist">>

\* the effects of reloadCustomColors once the read has resumed, in order
ReloadEffects == <<"mutate", "clear">>

\* the scenario of a key: "none", then "seen" once a lookup has computed
\* its color from the hash, "added" once an override has been stored after
\* that, "removed" once that override has been removed
Seen(ph, M, name) ==
    LET id == toID(name)
    IN  IF /\ ph[id] = "none"
           /\ ~Truthy(Get(M.customColors, id))
           /\ ~Truthy(Get(M.colorCache, id))
        THEN [ph EXCEPT ![id] = "seen"] ELSE ph

Added(ph, id) ==
    IF ph[id] \in {"seen", "removed"} THEN [ph EXCEPT ![id] = "added"] ELSE ph

Removed(ph, id) ==
    IF ph[id] = "added" THEN [ph EXCEPT ![id] = "removed"] ELSE ph

\* the lookups of sendColorNotifications
SeenBoth(ph, M, user, targetName) ==
    Seen(Seen(ph, M, user.name), nameColor(M, user.name), targetName)

RemoveAt(s, i) == SubSeq(s, 1, i - 1) \o SubSeq(s, i + 1, Len(s))

StartupLoad(raw) == [kind |-> "loadData", raw |-> raw]

ReloadLoad(raw) == [kind |-> "reloadCustomColors", raw |-> raw]

\* the module has been evaluated: both objects are empty and the read of
\* `void loadData()` is under way
Init ==
    /\ customColors = EmptyObject
    /\ colorCache = EmptyObject
    /\ file \in InitFiles
    /\ loads = <<StartupLoad(file)>>
    /\ last = Op("start", <<>>, <<>>, Ok)
    /\ effects = <<>>
    /\ phase = [id \in Ids |-> "none"]
    /\ ColorsAlone

\* the process is restarted: the module is evaluated again, the file stays
Restart ==
    /\ customColors' = EmptyObject
    /\ colorCache' = EmptyObject
    /\ loads' = <<StartupLoad(file)>>
    /\ last' = Op("start", <<>>, <<>>, Ok)
    /\ effects' = <<>>
    /\ UNCHANGED <<file, phase, plugins>>

\* some plugin renders a name: nameColor(name) calls hashColor(name)
Lookup(name) ==
    LET r == hashColor(Module, name)
    IN  /\ Becomes(r.M)
        /\ last' = Op("hashColor", name, <<>>, r.value)
        /\ effects' = <<>>
        /\ phase' = Seen(phase, Module, name)
        /\ UNCHANGED <<loads, plugins>>

\* an operation that ends without changing anything
Rejected(op, name, color, out) ==
    /\ last' = Op(op, name, color, out)
    /\ effects' = <<>>
    /\ UNCHANGED <<customColors, colorCache, file, loads, phase, plugins>>

\* this.checkCan('roomowner') throws: the first statement of the set,
\* delete and reload commands, before the target is read
CheckCanThrows(user, command) ==
    /\ ~user.roomowner
    /\ Rejected(command, <<>>, <<>>, Error)

\* /customcolor set storing the override under the name as typed
CmdSet_RawTarget(user, nameField, colorField) ==
    LET name == trim(nameField)
        color == trim(colorField)
        targetId == toID(name)
        M1 == addCustomColor(Module, name, color)
    IN  IF name = <<>> \/ color = <<>>
        THEN Rejected("set", nameField, colorField, Help)
        ELSE IF Len(targetId) > 19
        THEN Rejected("set", nameField, colorField, Error)
        ELSE IF ~validateHexColor(color)
        THEN Rejected("set", nameField, colorField, Error)
        ELSE /\ Becomes(sendColorNotifications(M1, user, name))
             /\ last' = Op("set", nameField, colorField, Ok)
             /\ effects' = WriteEffects
             /\ phase' = SeenBoth(Added(phase, targetId), M1, user, name)
             /\ UNCHANGED <<loads, plugins>>

\* /customcolor set [user], [hex], by a user who passes checkCan
CmdSet(user, nameField, colorField) ==
    LET name == trim(nameField)
        color == trim(colorField)
        targetId == toID(name)
        M1 == addCustomColor(Module, targetId, color)
    IN  IF name = <<>> \/ color = <<>>
        THEN Rejected("set", nameField, colorField, Help)
        ELSE IF Len(targetId) > 19
        THEN Rejected("set", nameField, colorField, Error)
        ELSE IF ~validateHexColor(color)
        THEN Rejected("set", nameField, colorField, Error)
        ELSE /\ Becomes(sendColorNotifications(M1, user, name))
             /\ last' = Op("set", nameField, colorField, Ok)
             /\ effects' = WriteEffects
             /\ phase' = SeenBoth(Added(phase, targetId), M1, user, name)
             /\ UNCHANGED <<loads, plugins>>

\* /customcolor delete [user], by a user who passes checkCan
CmdDelete(user, target) ==
    LET targetId == toID(target)
        M1 == removeCustomColor(Module, targetId)
    IN  IF target = <<>> THEN Rejected("delete", target, <<>>, Help)
        ELSE IF ~Truthy(Get(customColors, targetId))
        THEN Rejected("delete", target, <<>>, Error)
        ELSE /\ Becomes(sendColorNotifications(M1, user, target))
             /\ last' = Op("delete", target, <<>>, Ok)
             /\ effects' = WriteEffects
             /\ phase' = SeenBoth(Removed(phase, targetId), M1, user, target)
             /\ UNCHANGED <<loads, plugins>>

\* /customcolor reload, by a user who passes checkCan, up to the read that
\* loadData awaits
CmdReload(user) ==
    /\ Len(loads) < MaxLoads
    /\ loads' = Append(loads, ReloadLoad(file))
    /\ last' = Op("reload", <<>>, <<>>, Pending)
    /\ effects' = <<>>
    /\ UNCHANGED <<customColors, colorCache, file, phase, plugins>>

\* the read of a loadData call returns and the call resumes; the one made
\* by reloadCustomColors goes on to clearColorCache
LoadResume(i) ==
    LET load == loads[i]
        M1 == [Module EXCEPT !.customColors = loadData(@, load.raw)]
    IN  /\ loads' = RemoveAt(loads, i)
        /\ IF load.kind = "reloadCustomColors"
           THEN /\ Becomes(clearColorCache(M1))
                /\ effects' = ReloadEffects
           ELSE /\ Becomes(M1)
                /\ effects' = <<"mutate">>
        /\ last' = Op(load.kind, <<>>, <<>>, Ok)
        /\ UNCHANGED <<phase, plugins>>

\* direct calls of the exported functions
CallAddCustomColor(userid, color) ==
    /\ Becomes(addCustomColor(Module, userid, color))
    /\ last' = Op("addCustomColor", userid, color, Ok)
    /\ effects' = WriteEffects
    /\ phase' = Added(phase, userid)
    /\ UNCHANGED <<loads, plugins>>

CallRemoveCustomColor(userid) ==
    /\ Becomes(removeCustomColor(Module, userid))
    /\ last' = Op("removeCustomColor", userid, <<>>, Ok)
    /\ effects' = WriteEffects
    /\ phase' = Removed(phase, userid)
    /\ UNCHANGED <<loads, plugins>>

CallClearColorCache ==
    /\ Becomes(clearColorCache(Module))
    /\ last' = Op("clearColorCache", <<>>, <<>>, Ok)
    /\ effects' = <<"clear">>
    /\ UNCHANGED <<loads, phase, plugins>>

Next ==
    \/ Restart
    \/ \E name \in Names : Lookup(name)
    \/ \E user \in Users, command \in {"set", "delete", "reload"} :
         CheckCanThrows(user, command)
    \/ \E user \in Staff, nameField \in NameFields, colorField \in ColorFields :
         CmdSet(user, nameField, colorField)
    \/ \E user \in Staff, target \in DeleteTargets : CmdDelete(user, target)
    \/ \E user \in Staff : CmdReload(user)
    \/ \E i \in 1..Len(loads) : LoadResume(i)
    \/ \E userid \in Userids, color \in Colors : CallAddCustomColor(userid, color)
    \/ \E userid \in Userids : CallRemoveCustomColor(userid)
    \/ CallClearColorCache

Spec == Init /\ [][Next]_vars

---------------------------------------------------------------------------
\* Properties

\* the module state of the next state
ModuleNext ==
    [customColors |-> customColors', colorCache |-> colorCache', file |-> file']

\* the color hashColor(name) would return in the current state
ColorOf(name) == hashColor(Module, name).value

\* the color a first call returns in a fresh process that loaded no override
ColdColorOf(name) ==
    hashColor([customColors |-> EmptyObject, colorCache |-> EmptyObject,
               file |-> file], name).value

\* ^#[0-9A-Fa-f]{6}$
SevenCharHex(v) ==
    /\ Len(v) = 7
    /\ v[1] = "#"
    /\ \A i \in 2..7 : v[i] \in HexCharSet

\* ^#[0-9A-Fa-f]{3}$ or ^#[0-9A-Fa-f]{6}$
HexSyntax(v) ==
    /\ Len(v) \in {4, 7}
    /\ v[1] = "#"
    /\ \A i \in 2..Len(v) : v[i] \in HexCharSet

HasOverride(id) == id \in DOMAIN customColors

\* C1: every hashColor call returns a string of exactly 7 characters
\* matching ^#[0-9A-Fa-f]{6}$.
C1_SevenCharHexAlways ==
    last.op = "hashColor" => SevenCharHex(last.out)

\* C2: when the override table holds a #RGB or #RRGGBB entry for the
\* normalized key of x, hashColor(x) returns exactly that entry, whatever
\* the cache holds for the key.
C2_OverrideWins ==
    ( /\ last.op = "hashColor"
      /\ HasOverride(toID(last.name))
      /\ HexSyntax(customColors[toID(last.name)]) )
    => last.out = customColors[toID(last.name)]

\* C2 witness: a lookup returned a #RGB override while the cache held a
\* different color for the key.
C2_Witness ==
    /\ last.op = "hashColor"
    /\ HasOverride(toID(last.name))
    /\ Len(customColors[toID(last.name)]) = 4
    /\ HexSyntax(customColors[toID(last.name)])
    /\ toID(last.name) \in DOMAIN colorCache
    /\ colorCache[toID(last.name)] # customColors[toID(last.name)]
    /\ last.out = customColors[toID(last.name)]

\* C3: for an identifier with no override every hashColor call returns the
\* same value, the one a first call with an empty cache returns.
C3_SameColorOnEveryCall ==
    (last.op = "hashColor" /\ ~HasOverride(toID(last.name)))
    => last.out = ColdColorOf(last.name)

\* C4: calling clearColorCache does not change the value hashColor returns
\* for any identifier without an override.
C4_ClearKeepsColors ==
    [][ last'.op = "clearColorCache"
        => \A n \in Names :
             ~HasOverride(toID(n))
             => hashColor(ModuleNext, n).value = ColorOf(n) ]_vars

\* C5: once hashColor has computed the hash color of a key, an override
\* has been added for it and that override has been removed, hashColor
\* returns the hash color again while the key has no override.
C5_SetThenRemoveReverts ==
    \A n \in Names :
      (phase[toID(n)] = "removed" /\ ~HasOverride(toID(n)))
      => ColorOf(n) = HashColors[toID(n)]

\* C5 witness: a lookup made after the removal returned the hash color.
C5_Witness ==
    /\ last.op = "hashColor"
    /\ phase[toID(last.name)] = "removed"
    /\ ~HasOverride(toID(last.name))
    /\ last.out = HashColors[toID(last.name)]

\* C6: immediately after addCustomColor, removeCustomColor and
\* reloadCustomColors the cache holds no entry at all.
C6_CacheEmptyAfterChange ==
    last.op \in {"addCustomColor", "removeCustomColor", "reloadCustomColors"}
    => colorCache = EmptyObject

\* C7: every override-table change made by an administrative command
\* mutates the table, persists it and clears the cache, in this order, so
\* that the cache is empty when the command has made its change.
C7_MutatePersistClear ==
    ( /\ last.op \in {"set", "delete", "reloadCustomColors"}
      /\ last.out = Ok )
    => effects = <<"mutate", "persist", "clear">>

\* C8: every value stored in the override table matches the #RGB or
\* #RRGGBB syntax.
C8_OverridesAreHex ==
    \A id \in DOMAIN customColors : HexSyntax(customColors[id])

KeysNormalized ==
    \A id \in DOMAIN customColors \cup DOMAIN colorCache : toID(id) = id

\* C10: after a successful /customcolor set of name n to color c,
\* hashColor(m) returns c for every m with the normalized key of n; a
\* successful /customcolor delete of m removes the entry of that key and no
\* other; every key of the override table and of the cache is normalized.
C10_SameNormalization ==
    /\ [] KeysNormalized
    /\ [][ /\ (last'.op = "set" /\ last'.out = Ok)
              => \A m \in Names :
                   toID(m) = toID(trim(last'.name))
                   => hashColor(ModuleNext, m).value = trim(last'.color)
           /\ (last'.op = "delete" /\ last'.out = Ok)
              => customColors' = Delete(customColors, toID(last'.name))
         ]_vars

\* C10 witness: a set written with one spelling of a name was followed by
\* a lookup with another spelling, which returned the color set.
C10_Witness ==
    /\ last.op = "hashColor"
    /\ last.name = NameAsh
    /\ HasOverride(toID(NameAshBang))
    /\ last.out = customColors[toID(NameAshBang)]
    /\ last.out = <<"#", "f", "0", "0">>

\* C16: hashColor has no effect other than lazily filling the cache: it
\* never changes the override table (nor its file); when the key has an
\* override the cache is unchanged; when it has none, the only change is that
\* colorCache[key] holds the returned value, every other entry of the cache
\* being unchanged
C16_OnlyFillsCache ==
    [][ last'.op = "hashColor" =>
          LET id == toID(last'.name)
          IN  /\ customColors' = customColors
              /\ file' = file
              /\ IF HasOverride(id) THEN colorCache' = colorCache
                 ELSE /\ Get(colorCache', id) = last'.out
                      /\ DOMAIN colorCache' \ {id} = DOMAIN colorCache \ {id}
                      /\ \A k \in DOMAIN colorCache \ {id} :
                             colorCache'[k] = colorCache[k] ]_vars

\* a lookup has filled the cache entry of a key without override, next to
\* another cache entry, while the table holds an override of another key
C16_Witness ==
    /\ last.op = "hashColor"
    /\ ~HasOverride(toID(last.name))
    /\ toID(last.name) \in DOMAIN colorCache
    /\ colorCache[toID(last.name)] = HashColors[toID(last.name)]
    /\ last.out = HashColors[toID(last.name)]
    /\ DOMAIN colorCache # {toID(last.name)}
    /\ customColors # EmptyObject

\* C23: whatever the interleaving of the loadData calls with commands and
\* lookups, hashColor returns the override the table holds for the key at
\* the time of the call if there is one, and the hash color of the key
\* otherwise, never a cached override the table no longer holds (keys that
\* every object inherits are left aside)
C23_NoStaleOverride ==
    ( /\ last.op = "hashColor"
      /\ toID(last.name) \notin PrototypeKeys )
    => IF HasOverride(toID(last.name))
       THEN Truthy(customColors[toID(last.name)])
                => last.out = customColors[toID(last.name)]
       ELSE last.out = HashColors[toID(last.name)]

---------------------------------------------------------------------------
\* The files plugin (side-server/chat-plugins/management/files.ts)

\* a path that holds nothing, and one that holds a directory
Absent == <<"absent">>

Directory == <<"directory">>

\* no reply
Nothing == <<"nothing">>

PathA == <<"a">>

PathB == <<"b">>

PathD == <<"d">>

Paths == {PathA, PathB, PathD}

Secret == <<"s", "3", "c", "r", "3", "t">>

Motd == <<"m", "o", "t", "d">>

Contents == {Secret, Motd}

\* the target of /fileread and /filedelete as typed
FileTargets == {<<>>, PathA, <<" ">> \o PathB, PathD}

\* the user ids Config.WhiteListed may list
WhiteLists == {Undefined, <<"admin", "helper">>}

\* users: admin holds ~ and is whitelisted, helper is whitelisted only,
\* owner holds ~ only, guest neither
FileUsers ==
    {[id |-> <<"admin">>, bypassall |-> TRUE],
     [id |-> <<"helper">>, bypassall |-> FALSE],
     [id |-> <<"owner">>, bypassall |-> TRUE],
     [id |-> <<"guest">>, bypassall |-> FALSE]}

\* Config.WhiteListed?.includes(user.id)
WhiteListedIncludes(config, id) ==
    /\ config.WhiteListed # Undefined
    /\ \E i \in 1..Len(config.WhiteListed) : <<config.WhiteListed[i]>> = id

\* checkWhitelist(user) throws
checkWhitelistThrows(config, user) == ~WhiteListedIncludes(config, user.id)

\* this.checkCan('bypassall') throws
checkCanBypassallThrows(user) == ~user.bypassall

\* FS(path).exists() and FS(path).isFile(); a path outside Paths holds nothing
Entry(fs, path) == IF path \in DOMAIN fs THEN fs[path] ELSE Absent

exists(fs, path) == Entry(fs, path) # Absent

isFile(fs, path) == Entry(fs, path) \notin {Absent, Directory}

\* a reply of a files command: the command, who sent it, its target, its
\* outcome and the file contents it displayed
FileReply(op, user, target, out, shown) ==
    [op |-> op, user |-> user, target |-> target, out |-> out, shown |-> shown]

\* a files command ends with `out` and changes nothing
FilesEnd(op, user, target, out, shown) ==
    /\ files' = [files EXCEPT !.last = FileReply(op, user, target, out, shown)]
    /\ UNCHANGED exceptFiles

\* a files command changes the file system to fs1 and replies
FilesDone(op, user, target, fs1) ==
    /\ files' = [files EXCEPT !.fs = fs1,
                              !.last = FileReply(op, user, target, Ok, Nothing)]
    /\ UNCHANGED exceptFiles

\* /fileread [path]; runBroadcast is the outcome of this.runBroadcast()
fileread(user, target, runBroadcast) ==
    LET filePath == trim(target)
        end(out, shown) == FilesEnd("fileread", user, target, out, shown)
    IN  IF ~runBroadcast THEN end(Nothing, Nothing)
        ELSE IF checkWhitelistThrows(files.config, user) THEN end(Error, Nothing)
        ELSE IF target = <<>> THEN end(Error, Nothing)
        ELSE IF ~exists(files.fs, filePath) THEN end(Error, Nothing)
        ELSE IF ~isFile(files.fs, filePath) THEN end(Error, Nothing)
        ELSE end(Ok, Entry(files.fs, filePath))

\* the statements the other commands start with; TRUE when the command goes on
FilesGuard(op, user, target, runBroadcast) ==
    /\ runBroadcast
    /\ ~checkCanBypassallThrows(user)
    /\ ~checkWhitelistThrows(files.config, user)

\* ... and the reply when it does not
FilesGuardEnd(op, user, target, runBroadcast) ==
    IF ~runBroadcast THEN FilesEnd(op, user, target, Nothing, Nothing)
    ELSE FilesEnd(op, user, target, Error, Nothing)

\* /filedelete [path]: unlinkIfExists fails on a directory
filedelete(user, target, runBroadcast) ==
    LET filePath == trim(target)
    IN  IF ~FilesGuard("filedelete", user, target, runBroadcast)
        THEN FilesGuardEnd("filedelete", user, target, runBroadcast)
        ELSE IF target = <<>> \/ ~exists(files.fs, filePath)
                \/ ~isFile(files.fs, filePath)
        THEN FilesEnd("filedelete", user, target, Error, Nothing)
        ELSE FilesDone("filedelete", user, target,
                       [files.fs EXCEPT ![filePath] = Absent])

\* /filecopy [source], [destination]: reading a directory and writing onto
\* one fail
filecopy(user, source, destination, runBroadcast) ==
    LET target == <<source, destination>>
    IN  IF ~FilesGuard("filecopy", user, target, runBroadcast)
        THEN FilesGuardEnd("filecopy", user, target, runBroadcast)
        ELSE IF source = <<>> \/ destination = <<>>
                \/ ~isFile(files.fs, source)
                \/ Entry(files.fs, destination) = Directory
        THEN FilesEnd("filecopy", user, target, Error, Nothing)
        ELSE FilesDone("filecopy", user, target,
                       [files.fs EXCEPT ![destination] = files.fs[source]])

\* sourceFile.rename(FS(destination).path), of /filemove and /filerename: a
\* file does not replace a directory, nor a directory a file
Rename(op, user, source, destination, runBroadcast) ==
    LET target == <<source, destination>>
        from == Entry(files.fs, source)
        to == Entry(files.fs, destination)
    IN  IF ~FilesGuard(op, user, target, runBroadcast)
        THEN FilesGuardEnd(op, user, target, runBroadcast)
        ELSE IF source = <<>> \/ destination = <<>> \/ from = Absent
                \/ (to # Absent /\ (from = Directory) # (to = Directory))
        THEN FilesEnd(op, user, target, Error, Nothing)
        ELSE IF source = destination
        THEN FilesDone(op, user, target, files.fs)
        ELSE FilesDone(op, user, target,
                       [files.fs EXCEPT ![source] = Absent, ![destination] = from])

filemove(user, source, destination, runBroadcast) ==
    Rename("filemove", user, source, destination, runBroadcast)

filerename(user, source, destination, runBroadcast) ==
    Rename("filerename", user, source, destination, runBroadcast)

\* /filesave [path], [url]: the fetch answers ok with `content`, or not ok
filesave(user, filePath, responseOk, content, runBroadcast) ==
    IF ~FilesGuard("filesave", user, filePath, runBroadcast)
    THEN FilesGuardEnd("filesave", user, filePath, runBroadcast)
    ELSE IF filePath = <<>> \/ ~responseOk
            \/ Entry(files.fs, filePath) = Directory
    THEN FilesEnd("filesave", user, filePath, Error, Nothing)
    ELSE FilesDone("filesave", user, filePath,
                   [files.fs EXCEPT ![filePath] = content])

FilesInit ==
    /\ files \in
         {[fs |-> [path \in Paths |->
                     IF path = PathA THEN Secret
                     ELSE IF path = PathD THEN Directory ELSE Absent],
           config |-> [WhiteListed |-> list],
           last |-> FileReply("start", <<>>, <<>>, Ok, Nothing)] :
          list \in WhiteLists}
    /\ FilesAlone

FilesNext ==
    \/ \E user \in FileUsers, target \in FileTargets, runBroadcast \in BOOLEAN :
         fileread(user, target, runBroadcast)
    \/ \E user \in FileUsers, target \in FileTargets, runBroadcast \in BOOLEAN :
         filedelete(user, target, runBroadcast)
    \/ \E user \in FileUsers, source \in Paths \cup {<<>>}, destination \in Paths,
          runBroadcast \in BOOLEAN :
         filecopy(user, source, destination, runBroadcast)
    \/ \E user \in FileUsers, source \in Paths, destination \in Paths \cup {<<>>},
          runBroadcast \in BOOLEAN :
         filemove(user, source, destination, runBroadcast)
    \/ \E user \in FileUsers, source \in Paths, destination \in Paths,
          runBroadcast \in BOOLEAN :
         filerename(user, source, destination, runBroadcast)
    \/ \E user \in FileUsers, filePath \in Paths, responseOk \in BOOLEAN,
          content \in Contents, runBroadcast \in BOOLEAN :
         filesave(user, filePath, responseOk, content, runBroadcast)

FilesSpec == FilesInit /\ [][FilesNext]_files

\* C11: /fileread displays the contents of a file only to a user who holds
\* the ~ (bypassall) permission and is on the whitelist; for any other user
\* it raises an error and displays nothing
C11_ReadNeedsBypassallAndWhitelist ==
    files.last.op = "fileread" =>
        IF /\ files.last.user.bypassall
           /\ WhiteListedIncludes(files.config, files.last.user.id)
        THEN TRUE
        ELSE files.last.shown = Nothing /\ files.last.out \in {Error, Nothing}

---------------------------------------------------------------------------
\* The seen plugin (side-server/chat-plugins/misc/seen-clearall.ts)

\* Times are counted in half days: 24 * 60 * 60 * 1000 ms are OneDay units
OneDay == 2

\* Date.now() when the module is evaluated
StartTime == 200 * OneDay

\* how often the clock advances
MaxTicks == 2

\* what the clock advances by: half a day, 30 days
Advances == {1, 30 * OneDay}

\* the records of a large seen.json
FileRecords == 102

\* parseInt(text): white space, a sign, then the digits of base 10, or of
\* base 16 after 0x; NaN when there is no digit
NaN == [nan |-> TRUE, value |-> 0]

Number(n) == [nan |-> FALSE, value |-> n]

DigitValue(c) == IndexOf(HexDigits, toLowerCase(c)) - 1

IsDigit(c, radix) == c \in HexCharSet /\ DigitValue(c) < radix

RECURSIVE ParseDigits(_, _, _)
ParseDigits(s, radix, acc) ==
    IF s # <<>> /\ IsDigit(Head(s), radix)
    THEN ParseDigits(Tail(s), radix, acc * radix + DigitValue(Head(s)))
    ELSE acc

parseInt(text) ==
    LET s0 == TrimLeft(text)
        signed == s0 # <<>> /\ Head(s0) \in {"-", "+"}
        sign == IF s0 # <<>> /\ Head(s0) = "-" THEN -1 ELSE 1
        s1 == IF signed THEN Tail(s0) ELSE s0
        hex == Len(s1) >= 2 /\ s1[1] = "0" /\ s1[2] \in {"x", "X"}
        s2 == IF hex THEN Tail(Tail(s1)) ELSE s1
        radix == IF hex THEN 16 ELSE 10
    IN  IF s2 = <<>> \/ ~IsDigit(Head(s2), radix) THEN NaN
        ELSE Number(sign * ParseDigits(s2, radix, 0))

\* parseInt(target) || fallback
ParseIntOr(target, fallback) ==
    LET n == parseInt(target)
    IN  IF n.nan \/ n.value = 0 THEN fallback ELSE n.value

\* seenData: its entries [userid, date] in the order Object.entries and
\* for...in enumerate them
SeenEntry(userid, date) == [userid |-> userid, date |-> date]

HasSeen(seenData, userid) ==
    \E i \in 1..Len(seenData) : seenData[i].userid = userid

\* seenData[userid] = date: a new key is enumerated last, an old one stays
SeenPut(seenData, userid, date) ==
    IF HasSeen(seenData, userid)
    THEN [i \in 1..Len(seenData) |->
             IF seenData[i].userid = userid THEN SeenEntry(userid, date)
             ELSE seenData[i]]
    ELSE Append(seenData, SeenEntry(userid, date))

\* Array.prototype.sort((a, b) => b.date - a.date): stable, later dates first
RECURSIVE SortByDate(_)
SortByDate(entries) ==
    IF entries = <<>> THEN <<>>
    ELSE LET latest == CHOOSE d \in {entries[i].date : i \in 1..Len(entries)} :
                           \A i \in 1..Len(entries) : entries[i].date <= d
             IsLatest(e) == e.date = latest
             IsOlder(e) == e.date # latest
         IN  SelectSeq(entries, IsLatest) \o SortByDate(SelectSeq(entries, IsOlder))

\* Array.prototype.slice(0, end): a negative end counts from the end
Slice0(s, end) ==
    LET to == IF end < 0 THEN -Min(0, -(Len(s) + end)) ELSE Min(end, Len(s))
    IN  SubSeq(s, 1, to)

getRecentUsers(seenData, limit) == Slice0(SortByDate(seenData), limit)

\* cleanupOldSeen deleting the entries dated at the cutoff as well
cleanupOldSeen_AtCutoff(seenData, daysOld, now) ==
    LET cutoff == now - daysOld * OneDay
        Kept(e) == ~(e.date <= cutoff)
    IN  SelectSeq(seenData, Kept)

\* cleanupOldSeen(daysOld) at time now: the entries it keeps
cleanupOldSeen(seenData, daysOld, now) ==
    LET cutoff == now - daysOld * OneDay
        Kept(e) == ~(e.date < cutoff)
    IN  SelectSeq(seenData, Kept)

\* the contents of seen.json
SeenJSON(seenData) == [json |-> seenData]

UserAsh == <<"a", "s", "h">>

UserBo == <<"b", "o">>

\* a seen.json of FileRecords users, last seen today, 20 and 40 days ago
LargeFile ==
    SeenJSON([i \in 1..FileRecords |->
                 SeenEntry(<<"u">> \o NatToString16(i),
                           StartTime - (i % 3) * 20 * OneDay)])

SmallFile == SeenJSON(<<SeenEntry(UserBo, StartTime - 35 * OneDay)>>)

SeenFiles == {NoFile, SmallFile, LargeFile}

\* the users whose last connection closes: named or not, with or without
\* another connection
SeenUsers ==
    {[id |-> UserAsh, named |-> TRUE, connections |-> 0],
     [id |-> UserAsh, named |-> TRUE, connections |-> 1],
     [id |-> <<"g", "u", "e", "s", "t", "1">>, named |-> FALSE, connections |-> 0]}

RecentTargets ==
    {<<>>, <<"a", "b", "c">>, <<"0">>, <<"-", "1">>, <<"2">>, <<"2", "0", "0">>}

CleanupTargets ==
    {<<>>, <<"2", "9">>, <<"3", "0">>, <<"3", "1", "x">>, <<"-", "3", "0">>,
     <<"0", "x", "2", "8">>}

\* a reply of a seen command: rows are the entries /seen recent lists,
\* deleted the number /seen cleanup reports
SeenReply(op, target, out, rows, deleted) ==
    [op |-> op, target |-> target, out |-> out, rows |-> rows,
     deleted |-> deleted]

SeenStep(seen1) ==
    /\ seen' = seen1
    /\ UNCHANGED exceptSeen

\* the module is evaluated: seenData is empty and loadData awaits its read
SeenInit ==
    /\ seen \in
         {[seenData |-> <<>>, file |-> f, loading |-> TRUE, raw |-> f,
           now |-> StartTime, ticks |-> 0,
           last |-> SeenReply("start", <<>>, Ok, <<>>, 0)] : f \in SeenFiles}
    /\ SeenAlone

\* the read of loadData returns and loadData resumes
SeenLoadData ==
    /\ seen.loading
    /\ SeenStep([seen EXCEPT
                   !.loading = FALSE,
                   !.seenData = IF seen.raw = NoFile THEN @ ELSE seen.raw.json,
                   !.last = SeenReply("loadData", <<>>, Ok, <<>>, 0)])

\* time passes
SeenTick(advance) ==
    /\ seen.ticks < MaxTicks
    /\ SeenStep([seen EXCEPT
                   !.now = @ + advance,
                   !.ticks = @ + 1,
                   !.last = SeenReply("tick", <<>>, Ok, <<>>, 0)])

\* handlers.onDisconnect(user), which calls trackSeen(user.id)
seenOnDisconnect(user) ==
    LET seenData1 == SeenPut(seen.seenData, user.id, seen.now)
    IN  IF user.named /\ user.connections = 0
        THEN SeenStep([seen EXCEPT
                         !.seenData = seenData1,
                         !.file = SeenJSON(seenData1),
                         !.last = SeenReply("trackSeen", user.id, Ok, <<>>, 0)])
        ELSE SeenStep([seen EXCEPT
                         !.last = SeenReply("onDisconnect", user.id, Nothing, <<>>, 0)])

\* the two statements /seen recent and /seen cleanup start with: checkCan
\* throws, or runBroadcast returns false
SeenRefused(command, roomowner, runBroadcast) ==
    /\ ~roomowner \/ ~runBroadcast
    /\ SeenStep([seen EXCEPT
                   !.last = SeenReply(command, <<>>,
                                      IF ~roomowner THEN Error ELSE Nothing,
                                      <<>>, 0)])

\* /seen recent [limit], once past these two statements
seenRecent(target) ==
    LET limit == Min(ParseIntOr(target, 25), 100)
        recent == getRecentUsers(seen.seenData, limit)
    IN  SeenStep([seen EXCEPT
                    !.last = SeenReply("recent", target, Ok, recent, 0)])

\* /seen cleanup [days], once past these two statements
seenCleanup(target) ==
    LET days == ParseIntOr(target, 25)
        kept == cleanupOldSeen(seen.seenData, days, seen.now)
        deleted == Len(seen.seenData) - Len(kept)
        reply(out) ==
            SeenStep([seen EXCEPT !.last = SeenReply("cleanup", target, out, <<>>, 0)])
    IN  IF days < 30 THEN reply(Error)
        ELSE SeenStep([seen EXCEPT
                         !.seenData = kept,
                         !.file = IF deleted > 0 THEN SeenJSON(kept) ELSE @,
                         !.last = SeenReply("cleanup", target, Ok, <<>>, deleted)])

SeenNext ==
    \/ SeenLoadData
    \/ \E advance \in Advances : SeenTick(advance)
    \/ \E user \in SeenUsers : seenOnDisconnect(user)
    \/ \E command \in {"recent", "cleanup"}, roomowner \in BOOLEAN,
          runBroadcast \in BOOLEAN :
         SeenRefused(command, roomowner, runBroadcast)
    \/ \E target \in RecentTargets : seenRecent(target)
    \/ \E target \in CleanupTargets : seenCleanup(target)

SeenSpec == SeenInit /\ [][SeenNext]_seen

\* rows go from the most recently to the least recently seen
NewestFirst(rows) ==
    \A i \in 1..Len(rows), j \in 1..Len(rows) :
        i < j => rows[i].date >= rows[j].date

\* the argument of /seen recent holds no number, or zero
NoLimitGiven(target) == parseInt(target).nan \/ parseInt(target).value = 0

\* C12: for every limit argument /seen recent lists at most 100 users, at
\* most 25 when the argument holds no valid limit, the most recently seen
\* first
C12_RecentListsAtMost100 ==
    (seen.last.op = "recent" /\ seen.last.out = Ok) =>
        /\ Len(seen.last.rows) <= 100
        /\ NoLimitGiven(seen.last.target) => Len(seen.last.rows) <= 25
        /\ NewestFirst(seen.last.rows)

\* the entries of seenData older than `days` days at time now
OlderThan(seenData, days, now) ==
    {i \in 1..Len(seenData) : seenData[i].date < now - days * OneDay}

\* seenData1 holds the entries of seenData outside `gone`, unchanged and in
\* their order
KeepsTheRest(seenData, gone, seenData1) ==
    /\ Len(seenData1) = Len(seenData) - Cardinality(gone)
    /\ \A i \in 1..Len(seenData) \ gone :
           seenData1[i - Cardinality({j \in gone : j < i})] = seenData[i]

\* C13: /seen cleanup with days >= 30 deletes exactly the records older than
\* now minus days days, keeps every other record unchanged and reports the
\* number deleted; with days < 30 it raises an error and deletes nothing
C13_CleanupDeletesOldOnly ==
    [][(seen'.last.op = "cleanup" /\ seen'.last.out # Nothing) =>
          LET days == ParseIntOr(seen'.last.target, 25)
              gone == OlderThan(seen.seenData, days, seen.now)
          IN  IF days >= 30
              THEN /\ seen'.last.out = Ok
                   /\ KeepsTheRest(seen.seenData, gone, seen'.seenData)
                   /\ seen'.last.deleted = Cardinality(gone)
              ELSE /\ seen'.last.out = Error
                   /\ seen'.seenData = seen.seenData]_seen

\* a cleanup has deleted some records, kept others, one of them dated at
\* the cutoff
C13_Witness ==
    /\ seen.last.op = "cleanup"
    /\ seen.last.out = Ok
    /\ seen.last.deleted > 0
    /\ \E i \in 1..Len(seen.seenData) :
           seen.seenData[i].date =
               seen.now - ParseIntOr(seen.last.target, 25) * OneDay

---------------------------------------------------------------------------
\* The ontime plugin (Ontime chat-plugin, side-server/db/ontime.json)

\* how often the clock advances, by one unit of time
MaxOntimeTicks == 3

\* users: a person and a public bot
OntimeUsers ==
    {[id |-> UserAsh, isPublicBot |-> FALSE],
     [id |-> <<"b", "o", "t">>, isPublicBot |-> TRUE]}

OntimeIds == {user.id : user \in OntimeUsers}

\* the target of /ontime block and /ontime unblock as typed
OntimeTargets == {<<>>, <<"A", "s", "h", "!">>}

\* isBlockedOntime(userid)
isBlockedOntime(data, userid) == userid \in data.blocks

\* getTotalOntime(userid): data.ontime[userid] || 0
getTotalOntime(data, userid) ==
    IF userid \in DOMAIN data.ontime THEN data.ontime[userid] ELSE 0

\* updateOntime(userid, sessionTime)
updateOntime(data, userid, sessionTime) ==
    [data EXCEPT !.ontime =
        [id \in DOMAIN @ \cup {userid} |->
            IF id = userid THEN getTotalOntime(data, userid) + sessionTime
            ELSE @[id]]]

blockUser(data, userid) == [data EXCEPT !.blocks = @ \cup {userid}]

unblockUser(data, userid) == [data EXCEPT !.blocks = @ \ {userid}]

OntimeReply(op, target, out) == [op |-> op, target |-> target, out |-> out]

OntimeStep(ontime1) ==
    /\ ontime' = ontime1
    /\ UNCHANGED exceptOntime

\* the module is evaluated and loadData finds no ontime.json; nobody is
\* connected.  lastConnected holds, for the connected users, the time their
\* session started; earned is the time each user has spent connected while
\* not on the block list
OntimeInit ==
    /\ ontime = [data |-> [ontime |-> <<>>, blocks |-> {}],
                 file |-> NoFile,
                 lastConnected |-> <<>>,
                 now |-> 0,
                 earned |-> [id \in OntimeIds |-> 0],
                 last |-> OntimeReply("start", <<>>, Ok)]
    /\ OntimeAlone

\* one unit of time passes
OntimeTick ==
    /\ ontime.now < MaxOntimeTicks
    /\ OntimeStep([ontime EXCEPT
          !.now = @ + 1,
          !.earned = [id \in OntimeIds |->
                         IF id \in DOMAIN ontime.lastConnected
                            /\ ~isBlockedOntime(ontime.data, id)
                         THEN @[id] + 1 ELSE @[id]],
          !.last = OntimeReply("tick", <<>>, Ok)])

\* a named user connects
OntimeConnect(user) ==
    /\ user.id \notin DOMAIN ontime.lastConnected
    /\ OntimeStep([ontime EXCEPT
          !.lastConnected = [id \in DOMAIN @ \cup {user.id} |->
                                IF id = user.id THEN ontime.now ELSE @[id]],
          !.last = OntimeReply("connect", user.id, Ok)])

\* the last connection of a named user closes: handlers.onDisconnect(user)
ontimeOnDisconnect(user) ==
    LET sessionTime == ontime.now - ontime.lastConnected[user.id]
        counted == /\ ~user.isPublicBot
                   /\ ~isBlockedOntime(ontime.data, user.id)
                   /\ sessionTime > 0
        data1 == IF counted THEN updateOntime(ontime.data, user.id, sessionTime)
                 ELSE ontime.data
    IN  /\ user.id \in DOMAIN ontime.lastConnected
        /\ OntimeStep([ontime EXCEPT
              !.lastConnected = [id \in DOMAIN @ \ {user.id} |-> @[id]],
              !.data = data1,
              !.file = IF counted THEN data1 ELSE @,
              !.last = OntimeReply("onDisconnect", user.id, Ok)])

\* /ontime block [user]
ontimeBlock(target, roomowner) ==
    LET targetId == toID(target)
        data1 == blockUser(ontime.data, targetId)
    IN  IF ~roomowner \/ targetId = <<>> \/ isBlockedOntime(ontime.data, targetId)
        THEN OntimeStep([ontime EXCEPT !.last = OntimeReply("block", target, Error)])
        ELSE OntimeStep([ontime EXCEPT
                !.data = data1, !.file = data1,
                !.last = OntimeReply("block", target, Ok)])

\* /ontime unblock [user]
ontimeUnblock(target, roomowner) ==
    LET targetId == toID(target)
        data1 == unblockUser(ontime.data, targetId)
    IN  IF ~roomowner \/ targetId = <<>> \/ ~isBlockedOntime(ontime.data, targetId)
        THEN OntimeStep([ontime EXCEPT !.last = OntimeReply("unblock", target, Error)])
        ELSE OntimeStep([ontime EXCEPT
                !.data = data1, !.file = data1,
                !.last = OntimeReply("unblock", target, Ok)])

OntimeNext ==
    \/ OntimeTick
    \/ \E user \in OntimeUsers : OntimeConnect(user)
    \/ \E user \in OntimeUsers : ontimeOnDisconnect(user)
    \/ \E target \in OntimeTargets, roomowner \in BOOLEAN :
         ontimeBlock(target, roomowner)
    \/ \E target \in OntimeTargets, roomowner \in BOOLEAN :
         ontimeUnblock(target, roomowner)

OntimeSpec == OntimeInit /\ [][OntimeNext]_ontime

\* C14: time a user spends online while on the block list is never added to
\* their stored total: the total is at most the time the user has spent
\* connected while not blocked
C14_BlockedTimeNotCounted ==
    \A id \in OntimeIds :
        getTotalOntime(ontime.data, id) <= ontime.earned[id]

---------------------------------------------------------------------------
\* The news plugin (News chat-plugin, impulse/db/server-news.json)

\* how often the clock advances, by one unit of time
MaxNewsTicks == 2

\* target.split(','): the text before the first comma, and the rest
RECURSIVE BeforeComma(_)
BeforeComma(s) ==
    IF s = <<>> \/ Head(s) = "," THEN <<>>
    ELSE <<Head(s)>> \o BeforeComma(Tail(s))

AfterComma(s) == SubSeq(s, Len(BeforeComma(s)) + 2, Len(s))

\* parseTargetArgs(target): [title, descParts.join(',')]
parseTargetArgs(target) ==
    [title |-> BeforeComma(target), desc |-> AfterComma(target)]

\* data.news: its entries in the order Object.values enumerates them (no id
\* of the model is a number)
NewsEntry(id, title, postedBy, timestamp) ==
    [id |-> id, title |-> title, postedBy |-> postedBy, timestamp |-> timestamp]

\* data.news[id] is truthy: an entry, or a property every object inherits
HasNews(entries, id) ==
    \/ \E i \in 1..Len(entries) : entries[i].id = id
    \/ id \in PrototypeKeys

\* .sort((a, b) => b.timestamp - a.timestamp): stable, later entries first
RECURSIVE SortByTimestamp(_)
SortByTimestamp(entries) ==
    IF entries = <<>> THEN <<>>
    ELSE LET latest == CHOOSE t \in {entries[i].timestamp : i \in 1..Len(entries)} :
                           \A i \in 1..Len(entries) : entries[i].timestamp <= t
             IsLatest(e) == e.timestamp = latest
             IsOlder(e) == e.timestamp # latest
         IN  SelectSeq(entries, IsLatest)
                 \o SortByTimestamp(SelectSeq(entries, IsOlder))

\* generateNewsDisplay showing the two entries stored first
generateNewsDisplay_Unsorted(entries) == Slice0(entries, 2)

\* generateNewsDisplay(): the entries it renders
generateNewsDisplay(entries) == Slice0(SortByTimestamp(entries), 2)

\* addNews(id, title, desc, user): an entry replaces the one of its id
addNews(entries, id, title, user, now) ==
    LET entry == NewsEntry(id, title, user.name, now)
    IN  IF \E i \in 1..Len(entries) : entries[i].id = id
        THEN [i \in 1..Len(entries) |->
                 IF entries[i].id = id THEN entry ELSE entries[i]]
        ELSE Append(entries, entry)

\* deleteNews(id): the entries left
deleteNews(entries, id) ==
    LET Other(e) == e.id # id
    IN  SelectSeq(entries, Other)

NewsUsers ==
    {[name |-> <<"A", "s", "h">>, roomowner |-> TRUE],
     [name |-> <<"B", "o">>, roomowner |-> FALSE]}

\* the target of /servernews add as typed
NewsAddTargets ==
    {<<>>, <<"A", ",", "x">>, <<"a", "!", ",", "y">>, <<"B", ",", "x", ",", "y">>,
     <<"C", ",", "z">>, <<"D">>,
     <<"c", "o", "n", "s", "t", "r", "u", "c", "t", "o", "r", ",", "x">>}

\* the target of /servernews delete as typed
NewsDeleteTargets == {<<>>, <<"A">>, <<"b">>, <<"C", "!">>}

\* a reply: shown holds the entries a view or a login notification rendered
NewsReply(op, target, out, shown) ==
    [op |-> op, target |-> target, out |-> out, shown |-> shown]

NewsStep(news1) ==
    /\ news' = news1
    /\ UNCHANGED exceptNews

NewsEnd(op, target, out, shown) ==
    NewsStep([news EXCEPT !.last = NewsReply(op, target, out, shown)])

\* the module is evaluated and loadData finds no server-news.json
NewsInit ==
    /\ news = [news |-> <<>>, blocks |-> {}, now |-> 0,
               last |-> NewsReply("start", <<>>, Ok, <<>>)]
    /\ NewsAlone

\* one unit of time passes
NewsTick ==
    /\ news.now < MaxNewsTicks
    /\ NewsStep([news EXCEPT !.now = @ + 1,
                             !.last = NewsReply("tick", <<>>, Ok, <<>>)])

\* /servernews view
newsView(user) ==
    NewsEnd("view", user.name, Ok, generateNewsDisplay(news.news))

\* loginfilter(user), which calls onUserConnect(user)
onUserConnect(user) ==
    IF news.news = <<>> \/ toID(user.name) \in news.blocks
    THEN NewsEnd("onUserConnect", user.name, Nothing, <<>>)
    ELSE NewsEnd("onUserConnect", user.name, Ok, generateNewsDisplay(news.news))

\* /servernews add [title], [desc]
newsAdd(target, user) ==
    LET args == parseTargetArgs(target)
        id == toID(args.title)
    IN  IF ~user.roomowner THEN NewsEnd("add", target, Error, <<>>)
        ELSE IF target = <<>> THEN NewsEnd("add", target, Help, <<>>)
        ELSE IF args.desc = <<>> THEN NewsEnd("add", target, Error, <<>>)
        ELSE IF HasNews(news.news, id) THEN NewsEnd("add", target, Error, <<>>)
        ELSE NewsStep([news EXCEPT
                !.news = addNews(@, id, args.title, user, news.now),
                !.last = NewsReply("add", target, Ok, <<>>)])

\* /servernews delete [title]
newsDelete(target, user) ==
    LET id == toID(target)
    IN  IF ~user.roomowner THEN NewsEnd("delete", target, Error, <<>>)
        ELSE IF target = <<>> THEN NewsEnd("delete", target, Help, <<>>)
        ELSE IF ~HasNews(news.news, id) THEN NewsEnd("delete", target, Error, <<>>)
        ELSE NewsStep([news EXCEPT
                !.news = deleteNews(@, id),
                !.last = NewsReply("delete", target, Ok, <<>>)])

\* /servernews block
newsBlock(user) ==
    LET userid == toID(user.name)
    IN  IF userid \in news.blocks THEN NewsEnd("block", user.name, Error, <<>>)
        ELSE NewsStep([news EXCEPT
                !.blocks = @ \cup {userid},
                !.last = NewsReply("block", user.name, Ok, <<>>)])

\* /servernews unblock
newsUnblock(user) ==
    LET userid == toID(user.name)
    IN  IF userid \notin news.blocks THEN NewsEnd("unblock", user.name, Error, <<>>)
        ELSE NewsStep([news EXCEPT
                !.blocks = @ \ {userid},
                !.last = NewsReply("unblock", user.name, Ok, <<>>)])

NewsNext ==
    \/ NewsTick
    \/ \E user \in NewsUsers : newsView(user)
    \/ \E user \in NewsUsers : onUserConnect(user)
    \/ \E target \in NewsAddTargets, user \in NewsUsers : newsAdd(target, user)
    \/ \E target \in NewsDeleteTargets, user \in NewsUsers : newsDelete(target, user)
    \/ \E user \in NewsUsers : newsBlock(user)
    \/ \E user \in NewsUsers : newsUnblock(user)

NewsSpec == NewsInit /\ [][NewsNext]_news

\* the entries rendered: at most 2 and as many as are stored up to 2, all of
\* them stored, no stored entry left out being newer than one rendered,
\* newest first
LatestTwo(shown, entries) ==
    /\ Len(shown) = Min(2, Len(entries))
    /\ \A i \in 1..Len(shown) : \E j \in 1..Len(entries) : entries[j] = shown[i]
    /\ \A i \in 1..Len(shown), j \in 1..Len(shown) :
           i < j => shown[i].timestamp >= shown[j].timestamp /\ shown[i] # shown[j]
    /\ \A j \in 1..Len(entries) :
           (\A i \in 1..Len(shown) : shown[i] # entries[j]) =>
               \A i \in 1..Len(shown) : shown[i].timestamp >= entries[j].timestamp

\* C15: /servernews view and the login notification show at most 2 entries,
\* those with the greatest timestamps among all stored entries, newest first
C15_ShowsLatestTwo ==
    (news.last.op \in {"view", "onUserConnect"} /\ news.last.out = Ok) =>
        LatestTwo(news.last.shown, news.news)

\* a view rendered 2 of 3 stored entries, the one left out being stored
\* before one that is rendered
C15_Witness ==
    /\ news.last.op \in {"view", "onUserConnect"}
    /\ Len(news.news) = 3
    /\ Len(news.last.shown) = 2
    /\ news.last.shown[1] = news.news[3]
    /\ news.news[1].timestamp < news.news[3].timestamp
    /\ \A i \in 1..2 : news.last.shown[i] # news.news[1]

---------------------------------------------------------------------------
\* The seeds hashColor takes from a digest (custom-colors.ts, lines 89-92)

\* the values of a window of four hex digits
Windows == 0..(16^4 - 1)

\* four hex digits of a digest: toString(16) padded with zeros
Window(w) ==
    LET hex == NatToString16(w)
    IN  SubSeq(<<"0", "0", "0">>, 1, 4 - Len(hex)) \o hex

\* a digest whose windows of four hex digits all hold w
DigestOf(w) ==
    Window(w) \o Window(w) \o Window(w) \o Window(w)
    \o Window(w) \o Window(w) \o Window(w) \o Window(w)

DigestStep(digest1) ==
    /\ digest' = digest1
    /\ UNCHANGED exceptDigest

\* a digest has been computed
DigestInit ==
    /\ digest \in {[hash |-> DigestOf(w), seeded |-> FALSE, H |-> 0, S |-> 0, L |-> 0] :
                   w \in Windows}
    /\ DigestAlone

\* const H = ..., S = ..., let L = ...
TakeSeeds ==
    /\ ~digest.seeded
    /\ DigestStep([digest EXCEPT
          !.seeded = TRUE,
          !.H = HueSeed(digest.hash),
          !.S = SaturationSeed(digest.hash),
          !.L = LightnessSeed(digest.hash)])

DigestNext == TakeSeeds

DigestSpec == DigestInit /\ [][DigestNext]_digest

\* C17: for every digest the hue seed is an integer in [0, 360), the
\* saturation seed one in [40, 90) and the lightness seed one in [30, 50)
C17_SeedRanges ==
    digest.seeded =>
        /\ digest.H \in 0..359
        /\ digest.S \in 40..89
        /\ digest.L \in 30..49

\* the seeds of a digest whose windows hold 0x0707: the greatest hue, the
\* greatest saturation and the greatest lightness
C17_Witness ==
    /\ digest.seeded
    /\ digest.H = 359
    /\ digest.S = 89
    /\ digest.L = 49

---------------------------------------------------------------------------
\* The color hashColor computes from three seeds (custom-colors.ts, lines
\* 94-113)

SampleStep(sample1) ==
    /\ sample' = sample1
    /\ UNCHANGED exceptSample

\* the hue seed has been taken: any hue
SampleInit ==
    /\ sample \in
         {[H |-> H, S |-> 0, L |-> 0, corrected |-> FALSE, HLmod |-> 0,
           applied |-> 0, L2 |-> 0, bytes |-> <<>>, hex |-> <<>>] :
          H \in 0..359}
    /\ SampleAlone

\* the saturation and lightness seeds S and L are taken, then lines 94-113:
\* the luminance and hue corrections, the second conversion and the
\* formatting.  HLmod is the raw correction, applied the rescaled one (both
\* scaled by 10^7), L2 the corrected lightness, bytes the channels rounded,
\* hex their toHex
ComputeColor(S, L) ==
    LET HLmod == RawHLmod(sample.H, S, L)
        applied == RescaleHLmod(HLmod)
        L2 == L * 10^7 + applied + HueBoost(sample.H)
        rgb == HSLToRGB(sample.H, S, L2)
    IN  /\ ~sample.corrected
        /\ SampleStep([sample EXCEPT
              !.S = S,
              !.L = L,
              !.corrected = TRUE,
              !.HLmod = HLmod,
              !.applied = applied,
              !.L2 = L2,
              !.bytes = <<RoundByte(rgb.R), RoundByte(rgb.G), RoundByte(rgb.B)>>,
              !.hex = <<toHex(rgb.R), toHex(rgb.G), toHex(rgb.B)>>])

SampleNext == \E S \in 40..89, L \in 30..49 : ComputeColor(S, L)

SampleSpec == SampleInit /\ [][SampleNext]_sample

\* C18: for every hue in [0, 360), saturation in [40, 90) and lightness in
\* [30, 50) the corrected lightness stays within [0, 100], each reconverted
\* channel rounds to an integer in [0, 255] and is formatted as exactly two
\* hexadecimal digits
C18_CorrectedInRange ==
    sample.corrected =>
        /\ sample.L2 >= 0
        /\ sample.L2 <= 100 * 10^7
        /\ \A i \in 1..3 :
               /\ sample.bytes[i] \in 0..255
               /\ Len(sample.hex[i]) = 2
               /\ \A j \in 1..2 : sample.hex[i][j] \in Range(HexDigits)

\* a color whose correction is rescaled (HLmod > 18) and one of whose
\* channels needs the leading zero
C18_Witness ==
    /\ sample.corrected
    /\ sample.HLmod > 18 * 10^7
    /\ \E i \in 1..3 : sample.bytes[i] < 16 /\ sample.hex[i][1] = "0"

\* raw corrections to compare with: none, the threshold, the greatest
ReferenceHLmods == {0, 18 * 10^7, 30 * 10^7}

\* C19: the correction applied is a non-decreasing function of the raw
\* correction (lum - 0.2) * -150: a color is corrected at least as much as
\* any less dark one, in particular one above 18 at least as much as at 18
C19_CorrectionNonDecreasing ==
    sample.corrected =>
        \A reference \in ReferenceHLmods :
            /\ reference <= sample.HLmod =>
                   RescaleHLmod(reference) <= sample.applied
            /\ sample.HLmod <= reference =>
                   sample.applied <= RescaleHLmod(reference)

---------------------------------------------------------------------------
\* The symbolcolor, icon and symbol plugins (src/side-server/utils.ts,
\* chat-plugins/customization/custom-icons.ts and custom-symbol.ts): the set,
\* update and delete commands and the table each plugin keeps

DEFAULT_ICON_SIZE == 24

MIN_SIZE == 1

MAX_SIZE == 100

\* the blocked symbols the inputs below can hold
BLOCKED_SYMBOLS == {"~", "&", "#", "@", "%", "*", "+"}

\* userId.length > 19
MaxUserIdLength == 19

\* the readings of Date.now() are 0..MaxTableTicks
MaxTableTicks == 1

\* HEX_REGEX.test(color): /^#[0-9A-Fa-f]{6}$|^#[0-9A-Fa-f]{3}$/
isValidColor(color) ==
    \/ /\ Len(color) = 7
       /\ color[1] = "#"
       /\ \A i \in 2..7 : IsHexChar(color[i])
    \/ /\ Len(color) = 4
       /\ color[1] = "#"
       /\ \A i \in 2..4 : IsHexChar(color[i])

\* validateSize with the upper limit not enforced
validateSize_NoUpper(sizeStr) ==
    IF sizeStr = <<>> THEN [valid |-> TRUE, size |-> DEFAULT_ICON_SIZE]
    ELSE LET size == parseInt(sizeStr)
         IN  IF size.nan \/ size.value < MIN_SIZE
             THEN [valid |-> FALSE, size |-> 0]
             ELSE [valid |-> TRUE, size |-> size.value]

\* validateSize(sizeStr): a missing size is the default one
validateSize(sizeStr) ==
    IF sizeStr = <<>> THEN [valid |-> TRUE, size |-> DEFAULT_ICON_SIZE]
    ELSE LET size == parseInt(sizeStr)
         IN  IF size.nan \/ size.value < MIN_SIZE \/ size.value > MAX_SIZE
             THEN [valid |-> FALSE, size |-> 0]
             ELSE [valid |-> TRUE, size |-> size.value]

\* validateSymbol(symbol).valid
validateSymbol(symbol) ==
    /\ Len(symbol) = 1
    /\ symbol[1] \notin BLOCKED_SYMBOLS

\* data[userId] is truthy: an entry of the table, or a property every
\* object inherits
HasEntry(data, userId) ==
    \/ userId \in DOMAIN data
    \/ userId \in PrototypeKeys

\* data[userId].field = value, or Object.assign(data[userId], fields): it
\* changes the entry of the table, or the inherited object when the table
\* has no such entry
AssignEntry(data, userId, fields) ==
    IF userId \in DOMAIN data
    THEN [data EXCEPT ![userId] =
             [f \in DOMAIN @ |-> IF f \in DOMAIN fields THEN fields[f] ELSE @[f]]]
    ELSE data

\* the entries the commands store, now being the reading of Date.now()
SymbolColorEntry(color, setBy, now) ==
    [color |-> color, setBy |-> setBy, createdAt |-> now, updatedAt |-> now]

IconEntry(url, size, setBy, now) ==
    [url |-> url, size |-> size, setBy |-> setBy,
     createdAt |-> now, updatedAt |-> now]

CustomSymbolEntry(symbol, setBy, now) ==
    [symbol |-> symbol, setBy |-> setBy, createdAt |-> now, updatedAt |-> now]

\* the users giving the commands
TableUsers ==
    {[id |-> <<"a", "s", "h">>, roomowner |-> TRUE],
     [id |-> <<"b", "o">>, roomowner |-> FALSE]}

\* the fields of a target, as target.split(',') gives them; a field the
\* target does not have is undefined and, like "", falsy
TableNames ==
    {<<>>, <<" ", "A", "s", "h">>, NameConstructor, NameLong}

SymbolColorFields ==
    {<<>>, <<"#", "f", "0", "0">>,
     <<" ", "#", "0", "0", "f", "f", "0", "0">>, <<"r", "e", "d">>}

UrlFields == {<<>>, <<"a">>, <<"b">>}

SizeFields == {<<>>, <<" ", "3", "2">>, <<"0">>, <<"1", "0", "1">>, <<"x">>}

SymbolFields == {<<>>, <<"$">>, <<" ", "!">>, <<"#">>, <<"$", "$">>}

TableDeleteTargets == {<<>>, <<"A", "s", "h", "!">>, NameConstructor}

\* the arguments of an icon command, as parseArgs gives them
IconArgs(name, url, sizeStr) == [name |-> name, url |-> url, sizeStr |-> sizeStr]

NoArgs == IconArgs(<<>>, <<>>, <<>>)

TableReply(plugin, op, userId, out) ==
    [plugin |-> plugin, op |-> op, userId |-> userId, out |-> out,
     args |-> NoArgs]

TablesStep(tables1) ==
    /\ tables' = tables1
    /\ UNCHANGED exceptTables

\* a command that ends without a change of its plugin's data
TablesEnd(plugin, op, userId, out) ==
    TablesStep([tables EXCEPT !.last = TableReply(plugin, op, userId, out)])

\* a command that ends with new data for its plugin
TablesDone(plugin, op, userId, data) ==
    TablesStep([tables EXCEPT ![plugin] = data,
                              !.last = TableReply(plugin, op, userId, Ok)])

\* an icon command that ends without a change of the icons
IconEnd(op, userId, args, out) ==
    TablesStep([tables EXCEPT
                   !.last = [TableReply("icon", op, userId, out)
                                EXCEPT !.args = args]])

\* an icon command that ends with new icons
IconDone(op, userId, args, data) ==
    TablesStep([tables EXCEPT
                   !.icon = data,
                   !.last = [TableReply("icon", op, userId, Ok)
                                EXCEPT !.args = args]])

\* the three modules are evaluated and no loadData finds a file
TablesInit ==
    /\ tables = [symbolcolor |-> EmptyObject,
                 icon |-> EmptyObject,
                 symbol |-> EmptyObject,
                 now |-> 0,
                 last |-> TableReply("none", "none", <<>>, Nothing)]
    /\ TablesAlone

\* time passes: Date.now() reads a later time
TablesTick ==
    /\ tables.now < MaxTableTicks
    /\ TablesStep([tables EXCEPT
                      !.now = @ + 1,
                      !.last = TableReply("none", "tick", <<>>, Nothing)])

\* /symbolcolor set name, color
symbolcolorSet(user, nameField, colorField) ==
    LET name == trim(nameField)
        userId == toID(name)
        color == trim(colorField)
        data == tables.symbolcolor
    IN  IF ~user.roomowner
        THEN TablesEnd("symbolcolor", "set", userId, Error)
        ELSE IF name = <<>> \/ color = <<>>
        THEN TablesEnd("symbolcolor", "set", userId, Help)
        ELSE IF Len(userId) > MaxUserIdLength
        THEN TablesEnd("symbolcolor", "set", userId, Error)
        ELSE IF ~isValidColor(color)
        THEN TablesEnd("symbolcolor", "set", userId, Error)
        ELSE IF HasEntry(data, userId)
        THEN TablesEnd("symbolcolor", "set", userId, Error)
        ELSE TablesDone("symbolcolor", "set", userId,
                        Put(data, userId, SymbolColorEntry(color, user.id, tables.now)))

\* /symbolcolor update name, color
symbolcolorUpdate(user, nameField, colorField) ==
    LET name == trim(nameField)
        userId == toID(name)
        color == trim(colorField)
        data == tables.symbolcolor
    IN  IF ~user.roomowner
        THEN TablesEnd("symbolcolor", "update", userId, Error)
        ELSE IF name = <<>> \/ color = <<>>
        THEN TablesEnd("symbolcolor", "update", userId, Help)
        ELSE IF ~isValidColor(color)
        THEN TablesEnd("symbolcolor", "update", userId, Error)
        ELSE IF ~HasEntry(data, userId)
        THEN TablesEnd("symbolcolor", "update", userId, Error)
        ELSE TablesDone("symbolcolor", "update", userId,
                        AssignEntry(data, userId,
                                    [color |-> color,
                                     updatedAt |-> tables.now]))

\* /symbolcolor delete target
symbolcolorDelete(user, target) ==
    LET userId == toID(target)
        data == tables.symbolcolor
    IN  IF ~user.roomowner
        THEN TablesEnd("symbolcolor", "delete", userId, Error)
        ELSE IF ~HasEntry(data, userId)
        THEN TablesEnd("symbolcolor", "delete", userId, Error)
        ELSE TablesDone("symbolcolor", "delete", userId, Delete(data, userId))

\* /icon set name, url, size
iconSet(user, nameField, urlField, sizeField) ==
    LET name == trim(nameField)
        userId == toID(name)
        url == trim(urlField)
        sizeStr == trim(sizeField)
        args == IconArgs(name, url, sizeStr)
        checked == validateSize(sizeStr)
        data == tables.icon
    IN  IF ~user.roomowner
        THEN IconEnd("set", userId, args, Error)
        ELSE IF name = <<>> \/ url = <<>>
        THEN IconEnd("set", userId, args, Help)
        ELSE IF Len(userId) > MaxUserIdLength
        THEN IconEnd("set", userId, args, Error)
        ELSE IF HasEntry(data, userId)
        THEN IconEnd("set", userId, args, Error)
        ELSE IF ~checked.valid
        THEN IconEnd("set", userId, args, Error)
        ELSE IconDone("set", userId, args,
                      Put(data, userId,
                          IconEntry(url, checked.size, user.id, tables.now)))

\* /icon update name, url, size: a field left out keeps its value
iconUpdate(user, nameField, urlField, sizeField) ==
    LET name == trim(nameField)
        userId == toID(name)
        url == trim(urlField)
        sizeStr == trim(sizeField)
        args == IconArgs(name, url, sizeStr)
        checked == validateSize(sizeStr)
        data == tables.icon
        timeFields == [updatedAt |-> tables.now]
        urlFields ==
            IF url # <<>>
            THEN [updatedAt |-> tables.now, url |-> url]
            ELSE timeFields
        updateFields ==
            IF sizeStr # <<>>
            THEN [f \in DOMAIN urlFields \cup {"size"} |->
                     IF f = "size" THEN checked.size ELSE urlFields[f]]
            ELSE urlFields
    IN  IF ~user.roomowner
        THEN IconEnd("update", userId, args, Error)
        ELSE IF name = <<>>
        THEN IconEnd("update", userId, args, Help)
        ELSE IF ~HasEntry(data, userId)
        THEN IconEnd("update", userId, args, Error)
        ELSE IF sizeStr # <<>> /\ ~checked.valid
        THEN IconEnd("update", userId, args, Error)
        ELSE IconDone("update", userId, args,
                      AssignEntry(data, userId, updateFields))

\* /icon delete target
iconDelete(user, target) ==
    LET userId == toID(target)
        data == tables.icon
    IN  IF ~user.roomowner
        THEN TablesEnd("icon", "delete", userId, Error)
        ELSE IF ~HasEntry(data, userId)
        THEN TablesEnd("icon", "delete", userId, Error)
        ELSE TablesDone("icon", "delete", userId, Delete(data, userId))

\* /symbol set name, symbol
symbolSet(user, nameField, symbolField) ==
    LET name == trim(nameField)
        userId == toID(name)
        symbol == trim(symbolField)
        data == tables.symbol
    IN  IF ~user.roomowner
        THEN TablesEnd("symbol", "set", userId, Error)
        ELSE IF name = <<>> \/ symbol = <<>>
        THEN TablesEnd("symbol", "set", userId, Help)
        ELSE IF Len(userId) > MaxUserIdLength
        THEN TablesEnd("symbol", "set", userId, Error)
        ELSE IF ~validateSymbol(symbol)
        THEN TablesEnd("symbol", "set", userId, Error)
        ELSE IF HasEntry(data, userId)
        THEN TablesEnd("symbol", "set", userId, Error)
        ELSE TablesDone("symbol", "set", userId,
                        Put(data, userId, CustomSymbolEntry(symbol, user.id, tables.now)))

\* /symbol update name, symbol
symbolUpdate(user, nameField, symbolField) ==
    LET name == trim(nameField)
        userId == toID(name)
        symbol == trim(symbolField)
        data == tables.symbol
    IN  IF ~user.roomowner
        THEN TablesEnd("symbol", "update", userId, Error)
        ELSE IF name = <<>> \/ symbol = <<>>
        THEN TablesEnd("symbol", "update", userId, Help)
        ELSE IF ~validateSymbol(symbol)
        THEN TablesEnd("symbol", "update", userId, Error)
        ELSE IF ~HasEntry(data, userId)
        THEN TablesEnd("symbol", "update", userId, Error)
        ELSE TablesDone("symbol", "update", userId,
                        AssignEntry(data, userId,
                                    [symbol |-> symbol,
                                     updatedAt |-> tables.now]))

\* /symbol delete target
symbolDelete(user, target) ==
    LET userId == toID(target)
        data == tables.symbol
    IN  IF ~user.roomowner
        THEN TablesEnd("symbol", "delete", userId, Error)
        ELSE IF ~HasEntry(data, userId)
        THEN TablesEnd("symbol", "delete", userId, Error)
        ELSE TablesDone("symbol", "delete", userId, Delete(data, userId))

TablesNext ==
    \/ \E user \in TableUsers, name \in TableNames,
          color \in SymbolColorFields :
           symbolcolorSet(user, name, color)
    \/ \E user \in TableUsers, name \in TableNames,
          color \in SymbolColorFields :
           symbolcolorUpdate(user, name, color)
    \/ \E user \in TableUsers, target \in TableDeleteTargets :
           symbolcolorDelete(user, target)
    \/ \E user \in TableUsers, name \in TableNames, url \in UrlFields,
          size \in SizeFields :
           iconSet(user, name, url, size)
    \/ \E user \in TableUsers, name \in TableNames, url \in UrlFields,
          size \in SizeFields :
           iconUpdate(user, name, url, size)
    \/ \E user \in TableUsers, target \in TableDeleteTargets :
           iconDelete(user, target)
    \/ \E user \in TableUsers, name \in TableNames, symbol \in SymbolFields :
           symbolSet(user, name, symbol)
    \/ \E user \in TableUsers, name \in TableNames, symbol \in SymbolFields :
           symbolUpdate(user, name, symbol)
    \/ \E user \in TableUsers, target \in TableDeleteTargets :
           symbolDelete(user, target)

\* the three plugins' commands at one reading of the clock
TablesSpec == TablesInit /\ [][TablesNext]_tables

\* the icon plugin's commands as time passes
IconsNext ==
    \/ TablesTick
    \/ \E user \in TableUsers, name \in TableNames, url \in UrlFields,
          size \in SizeFields :
           iconSet(user, name, url, size)
    \/ \E user \in TableUsers, name \in TableNames, url \in UrlFields,
          size \in SizeFields :
           iconUpdate(user, name, url, size)
    \/ \E user \in TableUsers, target \in TableDeleteTargets :
           iconDelete(user, target)

IconsSpec == TablesInit /\ [][IconsNext]_tables

\* the table of the plugin the last command belongs to
TableOf(state) == state[state.last.plugin]

\* C20: in the symbolcolor, icon and symbol plugins a set that succeeds
\* found no entry for the target user and adds one; an update or a delete
\* that succeeds found an entry; a delete of a user without an entry raises
\* an error; and a command that does not succeed leaves every table as it was
C20_SetUpdateDeleteNeedEntry ==
    [][LET reply == tables'.last
           before == tables[reply.plugin]
           after == TableOf(tables')
       IN  /\ reply.out = Ok /\ reply.op = "set" =>
                  /\ reply.userId \notin DOMAIN before
                  /\ reply.userId \in DOMAIN after
           /\ reply.out = Ok /\ reply.op \in {"update", "delete"} =>
                  reply.userId \in DOMAIN before
           /\ reply.op = "delete" /\ reply.userId \notin DOMAIN before =>
                  reply.out = Error
           /\ reply.out # Ok =>
                  /\ tables'.symbolcolor = tables.symbolcolor
                  /\ tables'.icon = tables.icon
                  /\ tables'.symbol = tables.symbol]_tables

\* a size argument that reads as a number outside MIN_SIZE..MAX_SIZE
SizeOutOfRange(sizeStr) ==
    /\ sizeStr # <<>>
    /\ ~parseInt(sizeStr).nan
    /\ parseInt(sizeStr).value \notin MIN_SIZE..MAX_SIZE

\* every icon of the table has a size of MIN_SIZE..MAX_SIZE
StoredSizesInRange ==
    \A id \in DOMAIN tables.icon : tables.icon[id].size \in MIN_SIZE..MAX_SIZE

\* C21 as claimed: an /icon set or /icon update given a size outside 1..100
\* raises an error and leaves the icon table unchanged; a set that succeeds
\* without a size stores 24; every size in the table lies in 1..100.
C21_BadSizeRaises ==
    /\ [] StoredSizesInRange
    /\ [][LET reply == tables'.last
          IN  /\ ( /\ reply.plugin = "icon"
                   /\ reply.op \in {"set", "update"}
                   /\ SizeOutOfRange(reply.args.sizeStr) )
                 => /\ reply.out = Error
                    /\ tables'.icon = tables.icon
              /\ ( /\ reply.plugin = "icon"
                   /\ reply.op = "set"
                   /\ reply.out = Ok
                   /\ reply.args.sizeStr = <<>> )
                 => tables'.icon[reply.userId].size = DEFAULT_ICON_SIZE
         ]_tables

\* C21 as amended: an /icon set given a user, a url and a size outside
\* 1..100, or an /icon update given a user and such a size, raises an error;
\* every /icon set or /icon update given such a size leaves the icon table
\* unchanged, url, size and updatedAt included; a set that succeeds without a
\* size stores 24; every size in the table lies in 1..100.
C21_BadSizeRejected ==
    /\ [] StoredSizesInRange
    /\ [][LET reply == tables'.last
              args == reply.args
          IN  /\ ( /\ reply.plugin = "icon"
                   /\ reply.op \in {"set", "update"}
                   /\ SizeOutOfRange(args.sizeStr) )
                 => /\ tables'.icon = tables.icon
                    /\ ( /\ args.name # <<>>
                         /\ reply.op = "set" => args.url # <<>> )
                       => reply.out = Error
              /\ ( /\ reply.plugin = "icon"
                   /\ reply.op = "set"
                   /\ reply.out = Ok
                   /\ args.sizeStr = <<>> )
                 => tables'.icon[reply.userId].size = DEFAULT_ICON_SIZE
         ]_tables

\* C21 witness: an update carrying a new url and the size 101 for a user
\* whose icon was set earlier, at another url, was rejected with an error.
C21_Witness ==
    /\ tables.last.plugin = "icon"
    /\ tables.last.op = "update"
    /\ tables.last.out = Error
    /\ tables.last.args.sizeStr = <<"1", "0", "1">>
    /\ tables.last.args.url = <<"b">>
    /\ tables.last.userId \in DOMAIN tables.icon
    /\ tables.icon[tables.last.userId].url = <<"a">>
    /\ tables.icon[tables.last.userId].createdAt < tables.now

---------------------------------------------------------------------------
\* The clearall commands (src/side-server/chat-plugins/misc/seen-clearall.ts):
\* the rooms with their logs, games and members, and the timers that make
\* the members of a cleared room join again

\* a clear command is given while fewer than MaxTimers timers are pending
MaxTimers == 1

\* Rooms.global.chatRooms, in its order, and a battle room
ChatRooms == <<"lobby", "tours", "battle1">>

RoomIds == Range(ChatRooms)

\* the command is given outside every room
NoRoom == "none"

\* the users who are members of rooms; each has one connection
Members == {"ash", "bo"}

\* the users giving the commands
ClearUsers ==
    {[id |-> "ash", roomowner |-> TRUE, roommod |-> TRUE],
     [id |-> "bo", roomowner |-> FALSE, roommod |-> TRUE],
     [id |-> "cy", roomowner |-> FALSE, roommod |-> FALSE]}

\* room.game && room.game.gameid === 'tournament'
TournamentRuns(room) == room.game = "tournament"

\* u.leaveRoom(room, conn) for every user of userIds
leaveUsersFromRoom(room, userIds) == [room EXCEPT !.users = @ \ userIds]

\* u.joinRoom(room, conn) for every user of userIds
rejoinUsersToRoom(room, userIds) == [room EXCEPT !.users = @ \cup userIds]

\* clearRooms with the test for a tournament left out
RECURSIVE clearRooms_NoTournamentTest(_, _)
clearRooms_NoTournamentTest(ids, state) ==
    IF ids = <<>> THEN state
    ELSE LET id == Head(ids)
             room == state.rooms[id]
             userIds == room.users
         IN  clearRooms_NoTournamentTest(Tail(ids),
                 [rooms |-> [state.rooms EXCEPT ![id] =
                                leaveUsersFromRoom([room EXCEPT !.log = <<>>],
                                                   userIds)],
                  timers |-> state.timers
                                 \cup {[room |-> id, userIds |-> userIds]},
                  cleared |-> Append(state.cleared, id),
                  failed |-> state.failed])

\* clearRooms(rooms, user), the rooms given by their ids: state holds the
\* rooms, the timers set and the lists cleared and failed so far
RECURSIVE clearRooms(_, _)
clearRooms(ids, state) ==
    IF ids = <<>> THEN state
    ELSE LET id == Head(ids)
             room == state.rooms[id]
             userIds == room.users
         IN  IF TournamentRuns(room)
             THEN clearRooms(Tail(ids),
                      [state EXCEPT !.failed = Append(@, id)])
             ELSE clearRooms(Tail(ids),
                      [rooms |-> [state.rooms EXCEPT ![id] =
                                     leaveUsersFromRoom(
                                         [room EXCEPT !.log = <<>>], userIds)],
                       timers |-> state.timers
                                      \cup {[room |-> id, userIds |-> userIds]},
                       cleared |-> Append(state.cleared, id),
                       failed |-> state.failed])

\* the user of a step that is no command
NoUser == [id |-> "none", roomowner |-> FALSE, roommod |-> FALSE]

ClearReply(op, user, room, out, cleared, failed) ==
    [op |-> op, user |-> user, room |-> room, out |-> out,
     cleared |-> cleared, failed |-> failed]

RoomsStep(rooms1) ==
    /\ rooms' = rooms1
    /\ UNCHANGED exceptRooms

\* a step that leaves the rooms and the timers as they are
RoomsEnd(op, user, room, out) ==
    RoomsStep([rooms EXCEPT
                  !.last = ClearReply(op, user, room, out, <<>>, <<>>)])

\* the rooms exist, empty and without a game
RoomsInit ==
    /\ rooms = [rooms |-> [id \in RoomIds |->
                              [battle |-> id = "battle1",
                               game |-> "none",
                               log |-> <<>>,
                               users |-> {}]],
                timers |-> {},
                last |-> ClearReply("none", NoUser, NoRoom, Nothing, <<>>, <<>>)]
    /\ RoomsAlone

\* a member joins a room
JoinRoom(member, id) ==
    /\ member \notin rooms.rooms[id].users
    /\ RoomsStep([rooms EXCEPT
                     !.rooms[id].users = @ \cup {member},
                     !.last = ClearReply("join", NoUser, id, Nothing, <<>>, <<>>)])

\* a line is written to the log of a room whose log is empty
WriteLog(id) ==
    /\ rooms.rooms[id].log = <<>>
    /\ RoomsStep([rooms EXCEPT
                     !.rooms[id].log = <<"line">>,
                     !.last = ClearReply("log", NoUser, id, Nothing, <<>>, <<>>)])

\* a tournament starts in a chat room, or the one running there ends
ToggleTournament(id) ==
    /\ ~rooms.rooms[id].battle
    /\ RoomsStep([rooms EXCEPT
                     !.rooms[id].game =
                         IF @ = "none" THEN "tournament" ELSE "none",
                     !.last = ClearReply("game", NoUser, id, Nothing, <<>>, <<>>)])

\* the run of clearRooms a command makes
RunClearRooms(ids) ==
    clearRooms(ids, [rooms |-> rooms.rooms, timers |-> rooms.timers,
                     cleared |-> <<>>, failed |-> <<>>])

\* a command that has run clearRooms
RoomsCleared(op, user, room, run) ==
    RoomsStep([rooms |-> run.rooms,
               timers |-> run.timers,
               last |-> ClearReply(op, user, room,
                                   IF run.failed # <<>> THEN Error ELSE Ok,
                                   run.cleared, run.failed)])

\* /clearall, given in the room of this id or in no room
clearall(user, id) ==
    /\ Cardinality(rooms.timers) < MaxTimers
    /\ IF id # NoRoom /\ rooms.rooms[id].battle
       THEN RoomsEnd("clearall", user, id, Ok)
       ELSE IF id = NoRoom
       THEN RoomsEnd("clearall", user, id, Error)
       ELSE IF ~user.roommod
       THEN RoomsEnd("clearall", user, id, Error)
       ELSE RoomsCleared("clearall", user, id, RunClearRooms(<<id>>))

\* /clearall global
clearallGlobal(user) ==
    /\ Cardinality(rooms.timers) < MaxTimers
    /\ IF ~user.roomowner
       THEN RoomsEnd("global", user, NoRoom, Error)
       ELSE RoomsCleared("global", user, NoRoom,
                RunClearRooms(SelectSeq(ChatRooms,
                                  LAMBDA id : ~rooms.rooms[id].battle)))

\* the timer of a cleared room fires, a second after the clear
RejoinTimer(timer) ==
    /\ timer \in rooms.timers
    /\ RoomsStep([rooms EXCEPT
                     !.rooms[timer.room] =
                         rejoinUsersToRoom(@, timer.userIds),
                     !.timers = @ \ {timer},
                     !.last = ClearReply("rejoin", NoUser, timer.room,
                                         Nothing, <<>>, <<>>)])

RoomsNext ==
    \/ \E member \in Members, id \in RoomIds : JoinRoom(member, id)
    \/ \E id \in RoomIds : WriteLog(id)
    \/ \E id \in RoomIds : ToggleTournament(id)
    \/ \E user \in ClearUsers, id \in RoomIds \cup {NoRoom} :
           clearall(user, id)
    \/ \E user \in ClearUsers : clearallGlobal(user)
    \/ \E timer \in rooms.timers : RejoinTimer(timer)

RoomsSpec == RoomsInit /\ [][RoomsNext]_rooms

\* the room of this id in a state of the rooms variable
RoomOf(state, id) == state.rooms[id]

\* the room was emptied: no line in its log, no member left, listed as cleared
Emptied(state, id) ==
    /\ RoomOf(state, id).log = <<>>
    /\ RoomOf(state, id).users = {}
    /\ id \in Range(state.last.cleared)
    /\ id \notin Range(state.last.failed)

\* C22: a clearall command leaves every room in which a tournament is
\* running as it was, log and members included; the room a permitted
\* /clearall is given in, and every chat room at a permitted /clearall
\* global, is reported as failed with an error if a tournament is running
\* in it; /clearall global empties every other chat room that is no battle
\* room, whether or not some room failed.
C22_TournamentRoomsKept ==
    [][LET reply == rooms'.last
       IN  reply.op \in {"clearall", "global"} =>
           /\ \A id \in RoomIds :
                  TournamentRuns(RoomOf(rooms, id)) =>
                      RoomOf(rooms', id) = RoomOf(rooms, id)
           /\ ( /\ reply.op = "clearall"
                /\ reply.room # NoRoom
                /\ reply.user.roommod
                /\ TournamentRuns(RoomOf(rooms, reply.room)) )
              => /\ reply.out = Error
                 /\ reply.failed = <<reply.room>>
           /\ (reply.op = "global" /\ reply.user.roomowner) =>
                  \A id \in RoomIds :
                      ~RoomOf(rooms, id).battle =>
                          IF TournamentRuns(RoomOf(rooms, id))
                          THEN /\ reply.out = Error
                               /\ id \in Range(reply.failed)
                               /\ id \notin Range(reply.cleared)
                          ELSE Emptied(rooms', id)
      ]_rooms

\* C22 witness: a /clearall global has failed for the room tours, where a
\* tournament runs and the log and the members are still there, and has
\* emptied the lobby.
C22_Witness ==
    /\ rooms.last.op = "global"
    /\ rooms.last.out = Error
    /\ rooms.last.failed = <<"tours">>
    /\ rooms.last.cleared = <<"lobby">>
    /\ TournamentRuns(RoomOf(rooms, "tours"))
    /\ RoomOf(rooms, "tours").log # <<>>
    /\ RoomOf(rooms, "tours").users = Members
    /\ RoomOf(rooms, "lobby").log = <<>>
    /\ RoomOf(rooms, "lobby").users = {}
    /\ [room |-> "lobby", userIds |-> Members] \in rooms.timers

---------------------------------------------------------------------------
\* config/custom.css and its three writers: updateColorsCSS
\* (custom-colors.ts), updateSymbolColors (utils.ts) and updateIcons
\* (custom-icons.ts).  Text is a sequence of pieces: a tag, a line break, or
\* a stretch of other text; writeUpdate runs its callback at once

COLORS_START_TAG == "/* COLORS START */"

COLORS_END_TAG == "/* COLORS END */"

START_TAG == "/* SYMBOLCOLORS START */"

END_TAG == "/* SYMBOLCOLORS END */"

ICONS_START_TAG == "/* ICONS START */"

ICONS_END_TAG == "/* ICONS END */"

LineBreak == "\n"

\* the writes to the file are at most MaxWrites
MaxWrites == 4

\* the plugins that write the file, and each one's tags
Writers == {"colors", "symbolcolors", "icons"}

StartTag(writer) ==
    CASE writer = "colors" -> COLORS_START_TAG
      [] writer = "symbolcolors" -> START_TAG
      [] writer = "icons" -> ICONS_START_TAG

EndTag(writer) ==
    CASE writer = "colors" -> COLORS_END_TAG
      [] writer = "symbolcolors" -> END_TAG
      [] writer = "icons" -> ICONS_END_TAG

\* text.indexOf(piece): the places before its first occurrence, or -1
indexOf(text, piece) ==
    IF piece \notin Range(text) THEN -1
    ELSE (CHOOSE i \in 1..Len(text) :
              /\ text[i] = piece
              /\ \A j \in 1..(i - 1) : text[j] # piece) - 1

\* text.substring(from, to) and text.substring(from)
substring(text, from, to) == SubSeq(text, from + 1, to)

substringFrom(text, from) == SubSeq(text, from + 1, Len(text))

\* !text.trim(): the text holds nothing but white space
IsBlank(text) == \A i \in 1..Len(text) : text[i] = LineBreak

\* rules.join('\n')
RECURSIVE JoinLines(_)
JoinLines(rules) ==
    IF rules = <<>> THEN <<>>
    ELSE IF Len(rules) = 1 THEN Head(rules)
    ELSE Head(rules) \o <<LineBreak>> \o JoinLines(Tail(rules))

\* generateCSSRule(name, color): the selectors of the id and the color;
\* name is a key of the table, which toID leaves as it is
generateCSSRule(name, color) ==
    <<"[chatmessage-", name, "] { color: ", color, " !important; }">>

\* the two rules updateSymbolColors writes for an entry
SymbolColorRule(userId, entry) ==
    <<"[userlist-user-", userId, "] em.group { color: ", entry.color,
      " !important; }", LineBreak,
      "[chatmessage-", userId, "] small, .groupsymbol { color: ", entry.color,
      " !important; }">>

\* the rule updateIcons writes for an entry; the url is text of its own
IconRule(userId, entry, bust) ==
    <<"[userlist-user-", userId, "] { background: url(">> \o entry.url
        \o <<bust, ") right no-repeat !important; background-size: ",
             ToString(IF entry.size = 0 THEN DEFAULT_ICON_SIZE
                      ELSE entry.size),
             "px!important;}">>

\* `${START}\n${cssRules}\n${END}`
CssBlock(startTag, cssRules, endTag) ==
    <<startTag, LineBreak>> \o cssRules \o <<LineBreak, endTag>>

\* the callback the three writers give to writeUpdate: the new contents of
\* the file, from the ones read
Splice(fileContent, cssBlock, startTag, endTag) ==
    IF IsBlank(fileContent) THEN cssBlock \o <<LineBreak>>
    ELSE LET startIndex == indexOf(fileContent, startTag)
             endIndex == indexOf(fileContent, endTag)
         IN  IF startIndex # -1 /\ endIndex # -1 /\ startIndex < endIndex
             THEN substring(fileContent, 0, startIndex) \o cssBlock
                      \o substringFrom(fileContent, endIndex + 1)
             ELSE fileContent \o <<LineBreak>> \o cssBlock \o <<LineBreak>>

\* the cssRules of each writer, its table being a sequence of entries in
\* the order of Object.entries
ColorsRules(colors) ==
    JoinLines([i \in 1..Len(colors) |->
                  generateCSSRule(colors[i].userid, colors[i].color)])

SymbolColorsRules(data) ==
    JoinLines([i \in 1..Len(data) |-> SymbolColorRule(data[i].userId, data[i])])

IconsRules(data, bust) ==
    JoinLines([i \in 1..Len(data) |-> IconRule(data[i].userId, data[i], bust)])

\* what each writer makes of the file
updateColorsCSS(colors, fileContent) ==
    Splice(fileContent,
           CssBlock(COLORS_START_TAG, ColorsRules(colors), COLORS_END_TAG),
           COLORS_START_TAG, COLORS_END_TAG)

updateSymbolColors(data, fileContent) ==
    Splice(fileContent,
           CssBlock(START_TAG, SymbolColorsRules(data), END_TAG),
           START_TAG, END_TAG)

updateIcons(data, bust, fileContent) ==
    Splice(fileContent,
           CssBlock(ICONS_START_TAG, IconsRules(data, bust), ICONS_END_TAG),
           ICONS_START_TAG, ICONS_END_TAG)

\* the tables of custom colors
ColorsTables ==
    {<<>>,
     <<[userid |-> "ash", color |-> "#f00"]>>,
     <<[userid |-> "ash", color |-> "#00f"],
       [userid |-> "bo", color |-> "#f00"]>>}

\* the tables of symbol colors
SymbolColorsTables ==
    {<<>>,
     <<[userId |-> "ash", color |-> "#f00"]>>,
     <<[userId |-> "ash", color |-> "#00f"]>>}

\* the urls of icons: a url is any text without a comma
IconUrls ==
    {<<"a.png">>,
     <<"b.png", ICONS_END_TAG>>,
     <<COLORS_START_TAG, "c.png">>}

\* the tables of icons
IconsTables ==
    {<<>>} \cup {<<[userId |-> "ash", url |-> url, size |-> 32]>> :
                    url \in IconUrls}
           \cup {<<[userId |-> "ash", url |-> <<"a.png">>, size |-> 24],
                   [userId |-> "bo", url |-> <<"a.png">>, size |-> 100]>>}

\* cacheBuster(): ?v= and the time
Busts == {"?v=1", "?v=2"}

\* the contents of the file when the server starts: none of them has a tag
StartContents ==
    {<<>>, <<LineBreak>>, <<"body { margin: 0; }", LineBreak>>}

CssStep(css1) ==
    /\ css' = css1
    /\ UNCHANGED exceptCss

\* the server starts: no writer has written
CssInit ==
    /\ \E contents \in StartContents :
           css = [file |-> contents,
                  colors |-> <<>>,
                  symbolcolors |-> <<>>,
                  icons |-> <<>>,
                  bust |-> "?v=1",
                  written |-> {},
                  writes |-> 0,
                  last |-> "none"]
    /\ CssAlone

\* a command of the custom-colors plugin has changed its table to colors
\* and calls updateColorsCSS
WriteColors(colors) ==
    /\ css.writes < MaxWrites
    /\ CssStep([css EXCEPT
                   !.writes = @ + 1,
                   !.colors = colors,
                   !.file = updateColorsCSS(colors, @),
                   !.written = @ \cup {"colors"},
                   !.last = "colors"])

\* a command of the symbolcolor plugin has changed its table to data and
\* calls updateSymbolColors
WriteSymbolColors(data) ==
    /\ css.writes < MaxWrites
    /\ CssStep([css EXCEPT
                   !.writes = @ + 1,
                   !.symbolcolors = data,
                   !.file = updateSymbolColors(data, @),
                   !.written = @ \cup {"symbolcolors"},
                   !.last = "symbolcolors"])

\* a command of the icon plugin has changed its table to data and calls
\* updateIcons
WriteIcons(data, bust) ==
    /\ css.writes < MaxWrites
    /\ CssStep([css EXCEPT
                   !.writes = @ + 1,
                   !.icons = data,
                   !.bust = bust,
                   !.file = updateIcons(data, bust, @),
                   !.written = @ \cup {"icons"},
                   !.last = "icons"])

CssNext ==
    \/ \E colors \in ColorsTables : WriteColors(colors)
    \/ \E data \in SymbolColorsTables : WriteSymbolColors(data)
    \/ \E data \in IconsTables, bust \in Busts : WriteIcons(data, bust)

CssSpec == CssInit /\ [][CssNext]_css

\* the block a writer's latest update has written, from its table in state
BlockOf(state, writer) ==
    CssBlock(StartTag(writer),
             CASE writer = "colors" -> ColorsRules(state.colors)
               [] writer = "symbolcolors" ->
                      SymbolColorsRules(state.symbolcolors)
               [] writer = "icons" -> IconsRules(state.icons, state.bust),
             EndTag(writer))

\* the places of the text where the block stands
PlacesOf(text, block) ==
    {i \in 1..Len(text) :
        /\ i + Len(block) - 1 <= Len(text)
        /\ SubSeq(text, i, i + Len(block) - 1) = block}

\* the text around a writer's block: all of it if the block is not there
Outside(state, writer) ==
    LET block == BlockOf(state, writer)
        places == PlacesOf(state.file, block)
    IN  IF writer \notin state.written \/ places = {} THEN state.file
        ELSE LET i == CHOOSE place \in places : TRUE
             IN  SubSeq(state.file, 1, i - 1)
                     \o SubSeq(state.file, i + Len(block), Len(state.file))

\* a text without its line breaks
NonBlank(text) == SelectSeq(text, LAMBDA piece : piece # LineBreak)

\* the file holds the block of the writer's table at one place exactly
OneBlock(state, writer) ==
    Cardinality(PlacesOf(state.file, BlockOf(state, writer))) = 1

\* C24: the file had no tag at the start; after any updates by the three
\* writers it holds one block for each writer that has written, with the
\* rules of that writer's table at its latest update, and an update leaves
\* the text outside the writer's own block as it was, the blocks of the
\* other writers included (line breaks between blocks aside)
C24_OwnBlockOnly ==
    /\ [] (\A writer \in css.written : OneBlock(css, writer))
    /\ [][ NonBlank(Outside(css', css'.last))
               = NonBlank(Outside(css, css'.last)) ]_css

=============================================================================
